---------------------------- MODULE Spec2Model ----------------------------
(***************************************************************************)
(* Chat turn orchestrator of brain-at-home: the per-key lock               *)
(* (lib/locks.js), the inference admission queue (lib/llm_queue.js), the   *)
(* conversation store (lib/storage.js) and the turn handler handleChat     *)
(* with its background enrichment (server).                                *)
(*                                                                         *)
(* Specifications: LockSpec and QueueSpec drive the lock and the queue     *)
(* with arbitrary callers; Spec is the interplay of several turns and      *)
(* their enrichment on one conversation; TurnSpec follows a single request *)
(* line by line through routing, search augmentation and the answer, with  *)
(* everything written to its response.  ChatLockSpec is the lock with keys *)
(* built from (user_id, chat_id) pairs, QueueLiveSpec the queue with       *)
(* settling tasks, StoreSpec the record file under saves, deletes, reads   *)
(* and a crash, BudgetSpec the token budgets of the prompt assembler.      *)
(* MemorySpec is the memory update over the turns of a record,            *)
(* AssembleSpec the message list sent to the answer model, AgentSpec a     *)
(* request to the web agent, TurnLiveSpec is TurnSpec with every upstream  *)
(* call settling.                                                          *)
(*                                                                         *)
(* Granularity: JavaScript runs one macrotask at a time and drains the     *)
(* microtask queue before the next I/O event.  An action is one macrotask: *)
(* the I/O completion together with all synchronous code and promise       *)
(* continuations that follow it up to the next await on real I/O.  The     *)
(* hand-over of the lock to a waiting caller is a promise continuation;    *)
(* it is an action of its own that pre-empts every other action (Urgent).  *)
(***************************************************************************)
EXTENDS Integers, Sequences, FiniteSets, TLC

VARIABLES
  pc,         \* position of each caller / turn request
  key,        \* lock key passed to withChatLock by each caller
  queues,     \* locks.js: Map key -> promise stored by queues.set
  previous,   \* locks.js: the promise each caller awaits before fn
  released,   \* locks.js: release() of each caller's `current` was called
  outcome,    \* how each caller's withChatLock promise settled (LockSpec)
  highQueue,  \* llm_queue.js: highQueue
  running,    \* llm_queue.js: running
  active,     \* tasks whose task() was invoked and has not settled yet
  settled,    \* tasks that have settled and how (QueueSpec)
  mid,        \* handleChat: message_id of each turn request
  stream,     \* handleChat: useStream
  override,   \* handleChat: parsed use_web / web_search
  web,        \* handleChat: webDecision.use
  closedAt,   \* where the turn was when its client connection closed
  aborted,    \* streamOllamaChat: aborted (onClose ran)
  rec,        \* handleChat: the record object the turn loaded and mutates
  disk,       \* storage.js: the conversation's record file
  resp,       \* what the client of each turn request was answered
  calls,      \* inference calls issued on behalf of each turn request
  doneBefore, \* turns already answered when the request was received
  arrivals,   \* callers in the order in which they called withChatLock
  req,        \* TurnSpec: the locals of the one handleChat invocation, and
              \* how its calls to the web agent and for the answer ended
  res,        \* TurnSpec: the HTTP response object of that invocation
  effects,    \* TurnSpec: what the invocation did outside the response
  chat,       \* ChatLockSpec: the (user_id, chat_id) of each caller's turn
  admitted,   \* QueueSpec: tasks in the order runHighLlm was called
  started,    \* QueueSpec: tasks in the order their task() was invoked
  recFile,    \* StoreSpec: content of the file at the record path
  tmpFile,    \* StoreSpec: content of the file at the record path + '.tmp'
  holder,     \* StoreSpec: the record object each in-flight turn holds
  saving,     \* StoreSpec: the turn whose saveChat is under way, if any
  saved,      \* StoreSpec: records that were handed to saveChat so far
  deleted,    \* StoreSpec: deleteChat succeeded and no turn came since
  budgetIn,   \* BudgetSpec: the arguments of buildPromptMessages
  budgetOut,  \* BudgetSpec: the memory block and recent window it built
  memRec,     \* MemorySpec: the record's messages and memory fields
  memRun,     \* MemorySpec: the memory update of the latest turn
  asmIn,      \* AssembleSpec: what handleChat assembles the prompt from
  asmOut,     \* AssembleSpec: the message list sent to the inference service
  agentIn,    \* AgentSpec: the search request of the web-agent client
  agentOut    \* AgentSpec: what the web agent made of the request

lockVars  == <<pc, key, queues, previous, released, outcome>>
queueVars == <<highQueue, running, active, settled>>
turnVars  == <<mid, stream, override, web, closedAt, aborted, rec, disk,
               resp, calls, doneBefore>>
oneVars   == <<req, res, effects>>
storeVars == <<recFile, tmpFile, holder, saving, saved, deleted>>
budgetVars == <<budgetIn, budgetOut>>
moreVars  == <<memRec, memRun, asmIn, asmOut, agentIn, agentOut>>
extraVars == <<chat, admitted, started, storeVars, budgetVars, moreVars>>

----------------------------------------------------------------------------
(* Bounds *)
MaxCallers == 3      \* callers of withChatLock in LockSpec
MaxTasks   == 4      \* tasks handed to runHighLlm in QueueSpec
MaxReqs    == 2      \* turn requests on the conversation in Spec

Callers == 1..MaxCallers
Keys    == {"u:c1", "u:c2"}
Tasks   == 1..MaxTasks

----------------------------------------------------------------------------
(* lib/locks.js *)

NoPromise       == <<"none">>
ResolvedPromise == <<"resolved">>
\* `current`: the promise whose resolve function is `release`
CurrentOf(c)    == <<"current", c>>
\* `previous.then(() => current)`: the promise stored in the map
ChainOf(c)      == <<"then", c>>

\* const previous = queues.get(key) || Promise.resolve()
GetPreviousNone(k) == ResolvedPromise
GetPrevious(k) == IF queues[k] = NoPromise THEN ResolvedPromise ELSE queues[k]

\* is promise p fulfilled?  previous.then(() => current) is fulfilled once
\* previous is fulfilled and then current is.
RECURSIVE Resolved(_)
Resolved(p) ==
  CASE p = ResolvedPromise -> TRUE
    [] p[1] = "current"    -> released[p[2]]
    [] p[1] = "then"       -> Resolved(previous[p[2]]) /\ released[p[2]]
    [] OTHER               -> FALSE

\* `await previous` lets the caller continue
CanStartAlways(c) == TRUE
CanStart(c) == Resolved(previous[c])

\* lines 4-12: the synchronous part of withChatLock up to `await previous`
LockEnter(c, k) ==
  /\ previous' = [previous EXCEPT ![c] = GetPrevious(k)]
  /\ queues'   = [queues EXCEPT ![k] = ChainOf(c)]
  /\ key'      = [key EXCEPT ![c] = k]

\* lines 15-20: the finally block
LockNoRelease(c) == UNCHANGED <<released, queues>>
LockRelease(c) ==
  /\ released' = [released EXCEPT ![c] = TRUE]
  /\ queues'   = IF queues[key[c]] = CurrentOf(c)
                   THEN [queues EXCEPT ![key[c]] = NoPromise]
                   ELSE queues

\* a caller is between the start and the settlement of its fn
InFn(c) == pc[c] = "infn"

\* some caller's `await previous` continuation is ready: it runs before any
\* further I/O event
Urgent == \E c \in DOMAIN pc : pc[c] = "lockwait" /\ CanStart(c)

----------------------------------------------------------------------------
(* lib/llm_queue.js *)

\* the queue state as a value, so that a handler can call enqueue several
\* times in one step
QState == [hq |-> highQueue, run |-> running, act |-> active]

\* schedule(): lines 12-25 up to the start of the task
ScheduleNoGuard(q) ==
  IF q.hq = <<>> THEN q
  ELSE [hq |-> Tail(q.hq), run |-> TRUE, act |-> q.act \cup {Head(q.hq)}]
Schedule(q) ==
  IF q.run THEN q
  ELSE IF q.hq = <<>> THEN q
  ELSE [hq |-> Tail(q.hq), run |-> TRUE, act |-> q.act \cup {Head(q.hq)}]

\* enqueue(task): push the entry, then schedule()
EnqueueFront(q, t) == Schedule([q EXCEPT !.hq = <<t>> \o @])
Enqueue(q, t) == Schedule([q EXCEPT !.hq = Append(@, t)])

\* runHighLlm(task)
RunHighLlm(q, t) == Enqueue(q, t)

\* the .finally() of a started task: running = false; schedule()
FinallyNoSchedule(q, t) == [q EXCEPT !.run = FALSE, !.act = @ \ {t}]
Finally(q, t) == Schedule([q EXCEPT !.run = FALSE, !.act = @ \ {t}])

SetQueue(q) ==
  /\ highQueue' = q.hq
  /\ running'   = q.run
  /\ active'    = q.act

\* the task whose task() the step from queue state q to q2 invoked (line 18)
StartedBy(q, q2) ==
  IF q2.act \subseteq q.act THEN <<>>
  ELSE <<CHOOSE t \in q2.act \ q.act : TRUE>>

----------------------------------------------------------------------------
(* Initial values of the variables of the component specifications *)

MaxWriters == 2      \* turns in flight on the conversation in StoreSpec
MaxMsgs    == 2      \* messages a record of StoreSpec can grow to

Writers == 1..MaxWriters

\* ids are arbitrary non-empty strings (isNonEmptyString is the only check)
UserIds == {"a", "a:b"}
ChatIds == {"c", "b:c"}
Pairs   == UserIds \X ChatIds
NoPair  == <<"", "">>

\* handleChat: const chatKey = `${userId}:${chatId}`
ChatKeyOf(p) == p[1] \o ":" \o p[2]
ChatKeys     == {ChatKeyOf(p) : p \in Pairs}

\* what a path of the file system holds: nothing, a whole JSON record (the
\* record is identified by its number of messages), or the leading bytes of
\* one
Absent      == <<"absent">>
Whole(n)    == <<"record", n>>
Partial(n)  == <<"partial", n>>
NoHold      == <<"none">>

ChatIdle   == chat = [c \in Callers |-> NoPair]
OrderIdle  == admitted = <<>> /\ started = <<>>
StoreIdle ==
  /\ recFile = Absent
  /\ tmpFile = Absent
  /\ holder  = [w \in Writers |-> NoHold]
  /\ saving  = 0
  /\ saved   = {}
  /\ deleted = FALSE
BudgetIdle == budgetIn = <<>> /\ budgetOut = <<>>
MemIdle    == memRec = <<>> /\ memRun = <<>>
AsmIdle    == asmIn = <<>> /\ asmOut = <<>>
AgentIdle  == agentIn = <<>> /\ agentOut = <<>>

----------------------------------------------------------------------------
(* LockSpec: withChatLock called by arbitrary callers with arbitrary fn *)

LockInit ==
  /\ MemIdle /\ AsmIdle /\ AgentIdle
  /\ ChatIdle /\ OrderIdle /\ StoreIdle /\ BudgetIdle
  /\ pc        = [c \in Callers |-> "idle"]
  /\ key       = [c \in Callers |-> "u:c1"]
  /\ queues    = [k \in Keys \cup ChatKeys |-> NoPromise]
  /\ previous  = [c \in Callers |-> NoPromise]
  /\ released  = [c \in Callers |-> FALSE]
  /\ outcome   = [c \in Callers |-> "none"]
  /\ highQueue = <<>>
  /\ running   = FALSE
  /\ active    = {}
  /\ settled   = {}
  /\ mid       = <<>>
  /\ stream    = <<>>
  /\ override  = <<>>
  /\ web       = <<>>
  /\ closedAt  = <<>>
  /\ aborted   = <<>>
  /\ rec       = <<>>
  /\ disk      = <<>>
  /\ resp      = <<>>
  /\ calls     = <<>>
  /\ doneBefore = <<>>
  /\ arrivals  = <<>>
  /\ req       = <<>>
  /\ res       = <<>>
  /\ effects   = <<>>

\* the lock, the queue and the turn variables of a specification that uses
\* none of them
CoreIdle ==
  /\ pc        = [c \in Callers |-> "idle"]
  /\ key       = [c \in Callers |-> "u:c1"]
  /\ queues    = [k \in Keys \cup ChatKeys |-> NoPromise]
  /\ previous  = [c \in Callers |-> NoPromise]
  /\ released  = [c \in Callers |-> FALSE]
  /\ outcome   = [c \in Callers |-> "none"]
  /\ highQueue = <<>>
  /\ running   = FALSE
  /\ active    = {}
  /\ settled   = {}
  /\ mid       = <<>>
  /\ stream    = <<>>
  /\ override  = <<>>
  /\ web       = <<>>
  /\ closedAt  = <<>>
  /\ aborted   = <<>>
  /\ rec       = <<>>
  /\ disk      = <<>>
  /\ resp      = <<>>
  /\ calls     = <<>>
  /\ doneBefore = <<>>
  /\ arrivals  = <<>>
  /\ req       = <<>>
  /\ res       = <<>>
  /\ effects   = <<>>
  /\ ChatIdle /\ OrderIdle /\ StoreIdle

\* a caller invokes withChatLock(k, fn)
LCall(c, k) ==
  /\ ~Urgent
  /\ pc[c] = "idle"
  /\ LockEnter(c, k)
  /\ pc' = [pc EXCEPT ![c] = "lockwait"]
  /\ arrivals' = Append(arrivals, c)
  /\ UNCHANGED <<extraVars, oneVars, released, outcome, queueVars, turnVars>>

\* `await previous` returns and fn() is invoked
LStart(c) ==
  /\ pc[c] = "lockwait"
  /\ CanStart(c)
  /\ pc' = [pc EXCEPT ![c] = "infn"]
  /\ UNCHANGED <<extraVars, arrivals, oneVars, key, queues, previous, released, outcome, queueVars, turnVars>>

\* fn() settles (returns or throws); the finally block runs
LSettle(c, ok) ==
  /\ ~Urgent
  /\ pc[c] = "infn"
  /\ LockRelease(c)
  /\ pc' = [pc EXCEPT ![c] = "done"]
  /\ outcome' = [outcome EXCEPT ![c] = IF ok THEN "returned" ELSE "threw"]
  /\ UNCHANGED <<extraVars, arrivals, oneVars, key, previous, queueVars, turnVars>>

LockNext ==
  \/ \E c \in Callers, k \in Keys : LCall(c, k)
  \/ \E c \in Callers : LStart(c)
  \/ \E c \in Callers, ok \in BOOLEAN : LSettle(c, ok)

vars == <<lockVars, queueVars, turnVars, arrivals, oneVars, extraVars>>

LockSpec == LockInit /\ [][LockNext]_vars

\* the event loop runs every ready `await previous` continuation, and every
\* fn is assumed to settle
LockLiveSpec ==
  /\ LockSpec
  /\ WF_vars(\E c \in Callers : LStart(c))
  /\ WF_vars(\E c \in Callers, ok \in BOOLEAN : LSettle(c, ok))

----------------------------------------------------------------------------
(* ChatLockSpec: turns on arbitrary conversations reach withChatLock *)

\* handleChat lines 216-217: a turn on conversation p calls
\* withChatLock(chatKey, fn)
HCall(c, p) ==
  /\ ~Urgent
  /\ pc[c] = "idle"
  /\ LockEnter(c, ChatKeyOf(p))
  /\ chat' = [chat EXCEPT ![c] = p]
  /\ pc' = [pc EXCEPT ![c] = "lockwait"]
  /\ arrivals' = Append(arrivals, c)
  /\ UNCHANGED <<admitted, started, storeVars, budgetVars, oneVars, moreVars, released,
                 outcome, queueVars, turnVars>>

ChatLockNext ==
  \/ \E c \in Callers, p \in Pairs : HCall(c, p)
  \/ \E c \in Callers : LStart(c)
  \/ \E c \in Callers, ok \in BOOLEAN : LSettle(c, ok)

ChatLockSpec == LockInit /\ [][ChatLockNext]_vars

----------------------------------------------------------------------------
(* QueueSpec: runHighLlm called by arbitrary callers with arbitrary tasks *)

\* a caller hands task t to runHighLlm
QEnqueue(t) ==
  /\ t \notin {highQueue[i] : i \in 1..Len(highQueue)}
  /\ t \notin active
  /\ t \notin {s[1] : s \in settled}
  /\ SetQueue(RunHighLlm(QState, t))
  /\ admitted' = Append(admitted, t)
  /\ started'  = started \o StartedBy(QState, RunHighLlm(QState, t))
  /\ UNCHANGED <<chat, storeVars, budgetVars, arrivals, oneVars, moreVars, lockVars,
                 settled, turnVars>>

\* a started task settles; resolve/reject, then the finally handler
QSettle(t, ok) ==
  /\ t \in active
  /\ settled' = settled \cup {<<t, IF ok THEN "resolved" ELSE "rejected">>}
  /\ SetQueue(Finally(QState, t))
  /\ started' = started \o StartedBy(QState, Finally(QState, t))
  /\ UNCHANGED <<chat, admitted, storeVars, budgetVars, arrivals, oneVars, moreVars,
                 lockVars, turnVars>>

QueueNext ==
  \/ \E t \in Tasks : QEnqueue(t)
  \/ \E t \in Tasks, ok \in BOOLEAN : QSettle(t, ok)

QueueSpec == LockInit /\ [][QueueNext]_vars

\* every started task is assumed to settle
QueueLiveSpec ==
  /\ QueueSpec
  /\ WF_vars(\E t \in Tasks, ok \in BOOLEAN : QSettle(t, ok))

----------------------------------------------------------------------------
(* StoreSpec: the record file of one conversation under saveChat,         *)
(* deleteChat, read requests and a crash of the process.  saveChat is     *)
(* synchronous: once it has begun, the only steps are its own next step   *)
(* and the crash.                                                         *)

\* the record object a turn holds: n messages
Held(n)   == <<"held", n>>
\* the read handler, as the caller of a save
Reader    == MaxWriters + 1

\* loadChat: lines 19-24 (null when the file does not exist)
LoadChat == IF recFile = Absent THEN NoHold ELSE Held(recFile[2])

\* fs.writeFileSync(tmpPath, data), line 38: the file is opened (created or
\* truncated) and filled; rest: bytes still to be written
SaveWriteInPlace(n, rest) ==
  /\ recFile' = IF rest THEN Partial(n) ELSE Whole(n)
  /\ UNCHANGED tmpFile
SaveWrite(n, rest) ==
  /\ tmpFile' = IF rest THEN Partial(n) ELSE Whole(n)
  /\ UNCHANGED recFile

\* fs.renameSync(tmpPath, filePath), line 39
SaveRename ==
  IF tmpFile = Absent THEN UNCHANGED <<recFile, tmpFile>>
  ELSE recFile' = tmpFile /\ tmpFile' = Absent

\* saveChat(record) is entered by `by` with a record of n messages
SaveChatBegin(by, n) ==
  /\ SaveWrite(n, TRUE)
  /\ saving' = by
  /\ saved' = saved \cup {n}

\* POST /api/chat: handleChat reaches getOrCreateChatWithMeta (lines 46-65)
\* and from then on holds the record object
STurn(w) ==
  /\ saving = 0
  /\ holder[w] = NoHold
  /\ deleted' = FALSE
  /\ IF LoadChat = NoHold
       THEN /\ holder' = [holder EXCEPT ![w] = Held(0)]
            /\ SaveChatBegin(w, 0)
       ELSE /\ holder' = [holder EXCEPT ![w] = LoadChat]
            /\ UNCHANGED <<recFile, tmpFile, saving, saved>>
  /\ UNCHANGED <<lockVars, queueVars, turnVars, arrivals, oneVars, moreVars, chat,
                 admitted, started, budgetVars>>

\* finalizeChatTurn (grow = 1) or an enrichment step (grow = 0) of the turn
\* mutates its record object and calls store.saveChat(record)
SSave(w, grow) ==
  /\ saving = 0
  /\ holder[w] # NoHold
  /\ holder[w][2] + grow <= MaxMsgs
  /\ holder' = [holder EXCEPT ![w] = Held(holder[w][2] + grow)]
  /\ SaveChatBegin(w, holder[w][2] + grow)
  /\ UNCHANGED <<deleted, lockVars, queueVars, turnVars, arrivals, oneVars, moreVars,
                 chat, admitted, started, budgetVars>>

\* writeFileSync returns: all bytes are in the file
SWritten ==
  /\ saving # 0
  /\ tmpFile[1] = "partial"
  /\ SaveWrite(tmpFile[2], FALSE)
  /\ UNCHANGED <<holder, saving, saved, deleted, lockVars, queueVars,
                 turnVars, arrivals, oneVars, moreVars, chat, admitted, started,
                 budgetVars>>

\* renameSync returns and saveChat with it
SRenamed ==
  /\ saving # 0
  /\ tmpFile[1] = "record"
  /\ SaveRename
  /\ saving' = 0
  /\ UNCHANGED <<holder, saved, deleted, lockVars, queueVars, turnVars,
                 arrivals, oneVars, moreVars, chat, admitted, started, budgetVars>>

\* the turn and its enrichment have ended: the record object is dropped
SDone(w) ==
  /\ saving = 0
  /\ holder[w] # NoHold
  /\ holder' = [holder EXCEPT ![w] = NoHold]
  /\ UNCHANGED <<recFile, tmpFile, saving, saved, deleted, lockVars,
                 queueVars, turnVars, arrivals, oneVars, moreVars, chat, admitted,
                 started, budgetVars>>

\* GET /api/chats/:id: handleChatRead calls store.getOrCreateChat
SRead ==
  /\ saving = 0
  /\ IF LoadChat = NoHold
       THEN SaveChatBegin(Reader, 0)
       ELSE UNCHANGED <<recFile, tmpFile, saving, saved>>
  /\ UNCHANGED <<holder, deleted, lockVars, queueVars, turnVars, arrivals,
                 oneVars, moreVars, chat, admitted, started, budgetVars>>

\* deleteChat: lines 26-31; handleChatDelete answers 200 when it removed
\* the file
DeleteChat ==
  /\ recFile # Absent
  /\ recFile' = Absent

\* DELETE /api/chats/:id
SDelete ==
  /\ saving = 0
  /\ DeleteChat
  /\ deleted' = TRUE
  /\ UNCHANGED <<tmpFile, holder, saving, saved, lockVars, queueVars,
                 turnVars, arrivals, oneVars, moreVars, chat, admitted, started,
                 budgetVars>>

\* the process dies and is started again: memory is lost, files stay
SCrash ==
  /\ holder' = [w \in Writers |-> NoHold]
  /\ saving' = 0
  /\ UNCHANGED <<recFile, tmpFile, saved, deleted, lockVars, queueVars,
                 turnVars, arrivals, oneVars, moreVars, chat, admitted, started,
                 budgetVars>>

StoreNext ==
  \/ \E w \in Writers : STurn(w)
  \/ \E w \in Writers, grow \in {0, 1} : SSave(w, grow)
  \/ SWritten
  \/ SRenamed
  \/ \E w \in Writers : SDone(w)
  \/ SRead
  \/ SDelete
  \/ SCrash

StoreSpec == LockInit /\ [][StoreNext]_vars

----------------------------------------------------------------------------
(* BudgetSpec: buildPromptMessages (lib/memory.js) with the token helpers  *)
(* of lib/utils.js.  The helpers look at nothing but the length of a text, *)
(* so a text is its number of characters.                                  *)

MaxChars    == 9     \* characters of the stored summary
MaxFacts    == 2     \* stored facts
MaxRaw      == 3     \* raw messages of the record
MaxBudget   == 2     \* summary and facts budgets; the recent budget is
                     \* up to MaxBudget + 1

FactChars    == {1, 4, 5}
ContentChars == {0, 4, 9, 13}

MathMax(a, b) == IF a >= b THEN a ELSE b

\* estimateTokens: utils.js lines 3-6
EstimateTokens(text) == IF text = 0 THEN 0 ELSE (text + 3) \div 4

\* trimToTokenBudget: utils.js lines 8-14
TrimToTokenBudgetAppend(text, budgetTokens) ==
  IF text = 0 THEN 0
  ELSE IF text <= budgetTokens * 4 THEN text
  ELSE MathMax(0, budgetTokens * 4) + 3
TrimToTokenBudget(text, budgetTokens) ==
  IF text = 0 THEN 0
  ELSE IF text <= budgetTokens * 4 THEN text
  ELSE MathMax(0, budgetTokens * 4 - 3) + 3

\* trimFactsToBudget: utils.js lines 23-34
RECURSIVE KeepFacts(_, _, _, _)
KeepFacts(facts, kept, used, budgetTokens) ==
  IF facts = <<>> THEN kept
  ELSE IF used + EstimateTokens(Head(facts)) > budgetTokens THEN kept
  ELSE KeepFacts(Tail(facts), Append(kept, Head(facts)),
                 used + EstimateTokens(Head(facts)), budgetTokens)
TrimFactsToBudget(facts, budgetTokens) == KeepFacts(facts, <<>>, 0, budgetTokens)

\* the characters of texts.join(sep)
RECURSIVE Joined(_, _)
Joined(texts, sep) ==
  IF texts = <<>> THEN 0
  ELSE IF Len(texts) = 1 THEN texts[1]
  ELSE texts[1] + sep + Joined(Tail(texts), sep)

\* buildMemoryBlock: memory.js lines 256-270; "Summary:\n" and "Facts:\n- "
\* are 9 characters each, "\n- " is 3 and "\n\n" is 2
BuildMemoryBlock(summary, facts, budgets) ==
  LET trimmedSummary == TrimToTokenBudget(summary, budgets.summary)
      trimmedFacts   == TrimFactsToBudget(facts, budgets.facts)
      summaryPart == IF trimmedSummary # 0 THEN <<9 + trimmedSummary>>
                     ELSE <<>>
      factsPart   == IF trimmedFacts # <<>>
                       THEN <<9 + Joined(trimmedFacts, 3)>> ELSE <<>>
  IN  Joined(summaryPart \o factsPart, 2)

\* applyTokenBudget: memory.js lines 272-294, the loop from index i down
RECURSIVE ApplyFrom(_, _, _, _, _)
ApplyFrom(messages, i, selected, used, budgetTokens) ==
  IF i = 0 THEN selected
  ELSE LET message == messages[i]
           tokens  == EstimateTokens(message.content)
       IN  IF used + tokens > budgetTokens
             THEN IF selected = <<>>
                    THEN <<[message EXCEPT !.content =
                              TrimToTokenBudget(message.content,
                                MathMax(1, budgetTokens - used))]>>
                    ELSE selected
             ELSE ApplyFrom(messages, i - 1, <<message>> \o selected,
                            used + tokens, budgetTokens)
ApplyTokenBudget(messages, budgetTokens) ==
  IF budgetTokens <= 0 THEN <<>>
  ELSE ApplyFrom(messages, Len(messages), <<>>, 0, budgetTokens)

\* rawMessages.filter(role === 'user' && content)
RECURSIVE UserMessages(_)
UserMessages(rawMessages) ==
  IF rawMessages = <<>> THEN <<>>
  ELSE IF Head(rawMessages).role = "user" /\ Head(rawMessages).content # 0
    THEN <<Head(rawMessages)>> \o UserMessages(Tail(rawMessages))
  ELSE UserMessages(Tail(rawMessages))

\* userMessages.slice(-recentUserCount)
RecentSlice(rawMessages, recentUserCount) ==
  LET userMessages == UserMessages(rawMessages)
      n == Len(userMessages)
  IN  SubSeq(userMessages, MathMax(1, n - recentUserCount + 1), n)

\* selectRecentUserMessages: memory.js lines 296-303
SelectRecentUserMessages(rawMessages, recentUserCount, recentTokenBudget) ==
  IF recentUserCount <= 0 THEN <<>>
  ELSE ApplyTokenBudget(RecentSlice(rawMessages, recentUserCount),
                        recentTokenBudget)

RawMessage == [role : {"user"}, content : ContentChars]
              \cup [role : {"assistant"}, content : {4}]

SeqsUpTo(S, n) == UNION {[1..k -> S] : k \in 0..n}

\* arguments with a stored memory and no history, and arguments with a
\* history and no stored memory
MemoryInputs ==
  [summary : 0..MaxChars, facts : SeqsUpTo(FactChars, MaxFacts),
   rawMessages : {<<>>}, recentTurns : {0},
   budgets : [summary : 0..MaxBudget, facts : 0..MaxBudget, recent : {0}]]
RecentInputs ==
  [summary : {0}, facts : {<<>>},
   rawMessages : SeqsUpTo(RawMessage, MaxRaw), recentTurns : 0..3,
   budgets : [summary : {0}, facts : {0}, recent : 0..(MaxBudget + 1)]]

NotBuilt == [built |-> FALSE, memoryBlock |-> 0, recent |-> <<>>]

BudgetInit ==
  /\ MemIdle /\ AsmIdle /\ AgentIdle
  /\ ChatIdle /\ OrderIdle /\ StoreIdle
  /\ budgetIn \in MemoryInputs \cup RecentInputs
  /\ budgetOut = NotBuilt
  /\ pc        = [c \in Callers |-> "idle"]
  /\ key       = [c \in Callers |-> "u:c1"]
  /\ queues    = [k \in Keys \cup ChatKeys |-> NoPromise]
  /\ previous  = [c \in Callers |-> NoPromise]
  /\ released  = [c \in Callers |-> FALSE]
  /\ outcome   = [c \in Callers |-> "none"]
  /\ highQueue = <<>>
  /\ running   = FALSE
  /\ active    = {}
  /\ settled   = {}
  /\ mid       = <<>>
  /\ stream    = <<>>
  /\ override  = <<>>
  /\ web       = <<>>
  /\ closedAt  = <<>>
  /\ aborted   = <<>>
  /\ rec       = <<>>
  /\ disk      = <<>>
  /\ resp      = <<>>
  /\ calls     = <<>>
  /\ doneBefore = <<>>
  /\ arrivals  = <<>>
  /\ req       = <<>>
  /\ res       = <<>>
  /\ effects   = <<>>

\* buildPromptMessages: memory.js lines 305-332, the memory block and the
\* recent window it puts between the system prompt and the new prompt
BuildPromptMessages ==
  /\ ~budgetOut.built
  /\ budgetOut' =
       [built |-> TRUE,
        memoryBlock |-> BuildMemoryBlock(budgetIn.summary, budgetIn.facts,
                                         budgetIn.budgets),
        recent |-> SelectRecentUserMessages(budgetIn.rawMessages,
                     MathMax(0, budgetIn.recentTurns - 1),
                     budgetIn.budgets.recent)]
  /\ UNCHANGED <<budgetIn, lockVars, queueVars, turnVars, arrivals, oneVars, moreVars,
                 chat, admitted, started, storeVars>>

BudgetNext == BuildPromptMessages

BudgetSpec == BudgetInit /\ [][BudgetNext]_vars

----------------------------------------------------------------------------
(* MemorySpec: the memory update of the enrichment (maybeUpdateMemory,     *)
(* lib/memory.js updateMemory) over the turns finalized on one record.     *)
(* Every message content has 3 characters.                                 *)

MaxTurns == 4              \* turns finalized on the record
SummaryEveryNTurns == 2    \* config.SUMMARY_EVERY_N_TURNS
SummaryTokenThreshold == 6 \* config.SUMMARY_TOKEN_THRESHOLD
StartClock == 10           \* Date.now() when the conversation begins

\* payload.client_ts: not a finite number, or a number (a client clock that
\* is unset or behind the server's)
ClientTs == [given : {FALSE}, ts : {0}] \cup [given : {TRUE}, ts : {0, 1}]

\* the answers of the inference service to the memory call: the call throws
\* (status, timeout), the text holds no JSON object, or it holds an object
\* whose summary is a string or not and whose facts is an array or not
MemoryResponses ==
  [kind : {"throw", "nojson"}, summaryString : {FALSE}, factsArray : {FALSE}]
  \cup [kind : {"object"}, summaryString : BOOLEAN, factsArray : BOOLEAN]

\* the memory fields of the record: a summary and a fact list are named by
\* the time of the update that wrote them and by whether they are of the
\* type the record expects
NoMemory == [summary |-> <<0, TRUE>>, facts |-> <<0, TRUE>>,
             last_summary_ts |-> 0]
MemoryFields(record) ==
  [summary |-> record.summary, facts |-> record.facts,
   last_summary_ts |-> record.last_summary_ts]

\* getLastSummaryTs: lines 1781-1792
GetLastSummaryTs(record) ==
  IF record.last_summary_ts > 0 THEN record.last_summary_ts
  ELSE IF ~(record.last_message_ts > 0) THEN record.last_updated_ts
  ELSE 0

\* record.raw_messages.filter(message => message.ts > summaryAnchor)
RECURSIVE MessagesSince(_, _)
MessagesSince(messages, summaryAnchor) ==
  IF messages = <<>> THEN <<>>
  ELSE (IF Head(messages).ts > summaryAnchor THEN <<Head(messages)>>
        ELSE <<>>) \o MessagesSince(Tail(messages), summaryAnchor)

RECURSIVE CountUsers(_)
CountUsers(messages) ==
  IF messages = <<>> THEN 0
  ELSE (IF Head(messages).role = "user" THEN 1 ELSE 0)
       + CountUsers(Tail(messages))

\* estimateTokens(messagesSince.map(content).join('\n'))
TokensSince(messages) ==
  EstimateTokens(Joined([i \in 1..Len(messages) |-> 3], 1))

\* shouldUpdateMemory: memory.js lines 334-338
ShouldUpdateMemory(turnsSinceSummary, tokensSinceSummary) ==
  \/ turnsSinceSummary >= SummaryEveryNTurns
  \/ tokensSinceSummary >= SummaryTokenThreshold

\* updateMemory: memory.js lines 396-405, null or the pair it returns
UpdateMemoryUnchecked(reply) ==
  [updated |-> reply.kind = "object", summaryString |-> reply.summaryString,
   factsArray |-> reply.factsArray]
UpdateMemory(reply) ==
  IF reply.kind # "object" \/ ~reply.summaryString \/ ~reply.factsArray
    THEN [updated |-> FALSE, summaryString |-> FALSE, factsArray |-> FALSE]
    ELSE [updated |-> TRUE, summaryString |-> TRUE, factsArray |-> TRUE]

MemoryInit ==
  /\ CoreIdle /\ BudgetIdle /\ AsmIdle /\ AgentIdle
  /\ memRec = [raw_messages |-> <<>>, summary |-> NoMemory.summary,
               facts |-> NoMemory.facts, last_summary_ts |-> 0,
               last_message_ts |-> 0, last_updated_ts |-> 0]
  /\ memRun = [clock |-> StartClock, pc |-> "idle", now |-> 0,
               before |-> NoMemory, last |-> "none", turns |-> 0,
               turnsSince |-> 0, attempted |-> FALSE]

\* a turn is finalized (handleChat line 246-247, finalizeChatTurn) and its
\* enrichment reaches maybeUpdateMemory(record, answerTs) (lines 1718-1734)
MTurn(cts) ==
  /\ memRun.pc = "idle"
  /\ memRun.turns < MaxTurns
  /\ LET requestTs == memRun.clock + 1
         messageTs == IF cts.given THEN cts.ts ELSE requestTs
         answerTs  == memRun.clock + 2
         record == [memRec EXCEPT
                      !.raw_messages = @ \o <<[role |-> "user", ts |-> messageTs],
                                              [role |-> "assistant",
                                               ts |-> answerTs]>>,
                      !.last_message_ts = messageTs,
                      !.last_updated_ts = messageTs]
         messagesSince == MessagesSince(record.raw_messages,
                                        GetLastSummaryTs(record))
         update == ShouldUpdateMemory(CountUsers(messagesSince),
                                      TokensSince(messagesSince))
     IN  /\ memRec' = record
         /\ memRun' = [memRun EXCEPT
                         !.clock = answerTs,
                         !.pc = IF update THEN "updating" ELSE "idle",
                         !.now = answerTs,
                         !.before = MemoryFields(record),
                         !.last = "none",
                         !.turns = @ + 1,
                         !.turnsSince = @ + 1,
                         !.attempted = update]
  /\ UNCHANGED <<lockVars, queueVars, turnVars, arrivals, oneVars, chat,
                 admitted, started, storeVars, budgetVars, asmIn, asmOut,
                 agentIn, agentOut>>

\* the memory call settles (lines 1735-1758)
MUpdateDone(reply) ==
  /\ memRun.pc = "updating"
  /\ LET updated == IF reply.kind = "throw"
                      THEN [updated |-> FALSE, summaryString |-> FALSE,
                            factsArray |-> FALSE]
                      ELSE UpdateMemory(reply)
         good == reply.kind = "object" /\ reply.summaryString
                   /\ reply.factsArray
     IN  /\ memRec' = IF updated.updated
                        THEN [memRec EXCEPT
                                !.summary = <<memRun.now, updated.summaryString>>,
                                !.facts = <<memRun.now, updated.factsArray>>,
                                !.last_summary_ts = memRun.now]
                        ELSE memRec
         /\ memRun' = [memRun EXCEPT
                         !.pc = "idle",
                         !.last = IF reply.kind = "throw" THEN "throw"
                                  ELSE IF good THEN "ok" ELSE "invalid",
                         !.turnsSince = IF good THEN 0 ELSE @]
  /\ UNCHANGED <<lockVars, queueVars, turnVars, arrivals, oneVars, chat,
                 admitted, started, storeVars, budgetVars, asmIn, asmOut,
                 agentIn, agentOut>>

MemoryNext ==
  \/ \E cts \in ClientTs : MTurn(cts)
  \/ \E reply \in MemoryResponses : MUpdateDone(reply)

MemorySpec == MemoryInit /\ [][MemoryNext]_vars

----------------------------------------------------------------------------
(* The conversation record (lib/storage.js) *)

Reqs    == 1..MaxReqs
Mids    == {"m1", "m2"}
\* chatKey = `${userId}:${chatId}` of the one conversation of Spec
ChatKey == "u:c1"

NoEntry == [present |-> FALSE, turn |-> 0, polished |-> FALSE]

\* a message's content is identified by the turn it belongs to (the prompt
\* of the turn, the answer of the turn) and by whether polish rewrote it
UserMessage(m, r) ==
  [role |-> "user", message_id |-> m, turn |-> r, polished |-> FALSE]
AssistantMessage(r) ==
  [role |-> "assistant", message_id |-> "", turn |-> r, polished |-> FALSE]

\* no file at the record path
NoRecord ==
  [exists |-> FALSE, title |-> FALSE, raw_messages |-> <<>>,
   idempotency |-> [m \in Mids |-> NoEntry]]

\* getOrCreateChatWithMeta: the fresh record
EmptyRecord == [NoRecord EXCEPT !.exists = TRUE]

\* getOrCreateChat(userId, chatId): the record returned
GetOrCreateChat(file) == IF file.exists THEN file ELSE EmptyRecord

----------------------------------------------------------------------------
(* handleChat and its helpers (server) *)

\* shouldUseWeb
ShouldUseWebIgnoringOverride(ovr, explicitSearch, needsWeb, infoSeeking) ==
  explicitSearch \/ needsWeb \/ infoSeeking
ShouldUseWebVeto(ovr, explicitSearch, needsWeb, infoSeeking) ==
  ovr /\ (explicitSearch \/ needsWeb) /\ infoSeeking
ShouldUseWeb(ovr, explicitSearch, needsWeb, infoSeeking) ==
  ovr /\ (explicitSearch \/ needsWeb \/ infoSeeking)

\* record.idempotency && record.idempotency[messageId]
IdempotencyMiss(record, m) == FALSE
IdempotencyHit(record, m) == record.idempotency[m].present

\* finalizeChatTurn up to store.saveChat(record): the record it saves
FinalizeUserOnly(record, r, m) ==
  [record EXCEPT
     !.raw_messages = Append(@, UserMessage(m, r)),
     !.idempotency  = [@ EXCEPT ![m] =
                         [present |-> TRUE, turn |-> r, polished |-> FALSE]]]
FinalizeChatTurn(record, r, m) ==
  [record EXCEPT
     !.raw_messages = Append(Append(@, UserMessage(m, r)), AssistantMessage(r)),
     !.idempotency  = [@ EXCEPT ![m] =
                         [present |-> TRUE, turn |-> r, polished |-> FALSE]]]

\* index of the last assistant message, 0 if there is none
RECURSIVE LastAssistant(_, _)
LastAssistant(raw, i) ==
  IF i = 0 THEN 0
  ELSE IF raw[i].role = "assistant" THEN i
  ELSE LastAssistant(raw, i - 1)

\* maybePolishAnswer, the polished text being applied
ApplyPolishMessageOnly(record, m) ==
  LET i == LastAssistant(record.raw_messages, Len(record.raw_messages))
  IN  IF i = 0 THEN record
      ELSE [record EXCEPT !.raw_messages[i].polished = TRUE]
ApplyPolish(record, m) ==
  LET i  == LastAssistant(record.raw_messages, Len(record.raw_messages))
      r1 == IF i = 0 THEN record
            ELSE [record EXCEPT !.raw_messages[i].polished = TRUE]
  IN  IF r1.idempotency[m].present
        THEN [r1 EXCEPT !.idempotency[m].polished = TRUE]
        ELSE r1

NoResponse == [kind |-> "none", turn |-> 0, polished |-> FALSE]

\* the cached answer written to the client by the idempotency replay
ReplayOther(record, m, r) == [kind |-> "replay", turn |-> r, polished |-> FALSE]
Replay(record, m, r) ==
  [kind |-> "replay", turn |-> record.idempotency[m].turn,
   polished |-> record.idempotency[m].polished]

\* the turn's fn has started and its withChatLock has not run finally yet
HoldsLock(r) ==
  /\ pc[r] \notin {"idle", "classify", "lockwait"}
  /\ ~released[r]

\* inference requests in flight: the classifier call of determineInfoSeeking
\* and the call made by the started task of the admission queue
InFlight == {<<r, "classify">> : r \in {q \in Reqs : pc[q] = "classify"}}
            \cup active

\* the inference calls of r after this step: those before plus the tasks of
\* r that the step started
CallsAfter(r, act) == calls[r] \cup {t[2] : t \in {a \in act : a[1] = r}}

Init ==
  /\ MemIdle /\ AsmIdle /\ AgentIdle
  /\ ChatIdle /\ OrderIdle /\ StoreIdle /\ BudgetIdle
  /\ pc        = [r \in Reqs |-> "idle"]
  /\ key       = [r \in Reqs |-> ChatKey]
  /\ queues    = [k \in Keys |-> NoPromise]
  /\ previous  = [r \in Reqs |-> NoPromise]
  /\ released  = [r \in Reqs |-> FALSE]
  /\ outcome   = [r \in Reqs |-> "none"]
  /\ highQueue = <<>>
  /\ running   = FALSE
  /\ active    = {}
  /\ settled   = {}
  /\ mid       = [r \in Reqs |-> "m1"]
  /\ stream    = [r \in Reqs |-> FALSE]
  /\ override  = [r \in Reqs |-> FALSE]
  /\ web       = [r \in Reqs |-> FALSE]
  /\ closedAt  = [r \in Reqs |-> "open"]
  /\ aborted   = [r \in Reqs |-> FALSE]
  /\ rec       = [r \in Reqs |-> NoRecord]
  /\ disk      = NoRecord
  /\ resp      = [r \in Reqs |-> NoResponse]
  /\ calls     = [r \in Reqs |-> {}]
  /\ doneBefore = [r \in Reqs |-> {}]
  /\ arrivals  = <<>>
  /\ req       = <<>>
  /\ res       = <<>>
  /\ effects   = <<>>

\* POST /api/chat is received: validation passes and determineInfoSeeking
\* sends the classifier request (lines 135-203, 1112-1144)
Submit(r, m, s, o) ==
  /\ ~Urgent
  /\ pc[r] = "idle"
  /\ \A q \in Reqs : q < r => pc[q] # "idle"
  /\ pc'       = [pc EXCEPT ![r] = "classify"]
  /\ mid'      = [mid EXCEPT ![r] = m]
  /\ stream'   = [stream EXCEPT ![r] = s]
  /\ override' = [override EXCEPT ![r] = o]
  /\ calls'    = [calls EXCEPT ![r] = @ \cup {"classify"}]
  /\ doneBefore' = [doneBefore EXCEPT ![r] =
                      {q \in Reqs : resp[q].kind \in {"answer", "replay"}}]
  /\ UNCHANGED <<extraVars, arrivals, oneVars, key, queues, previous, released, outcome, queueVars,
                 web, closedAt, aborted, rec, disk, resp>>

\* the classifier call returns or fails; the routing decision is taken and
\* withChatLock is called (lines 204-217)
ClassifyDone(r, explicitSearch, needsWeb, infoSeeking) ==
  /\ ~Urgent
  /\ pc[r] = "classify"
  /\ web' = [web EXCEPT ![r] =
               ShouldUseWeb(override[r], explicitSearch, needsWeb, infoSeeking)]
  /\ LockEnter(r, ChatKey)
  /\ pc' = [pc EXCEPT ![r] = "lockwait"]
  /\ UNCHANGED <<extraVars, arrivals, oneVars, released, outcome, queueVars, mid, stream, override,
                 closedAt, aborted, rec, disk, resp, calls, doneBefore>>

\* the lock is acquired and the callback runs up to its first await
\* (lines 218-311 / 506-516 / 547-570)
FnStart(r) ==
  /\ pc[r] = "lockwait"
  /\ CanStart(r)
  /\ LET record == GetOrCreateChat(disk)
         q      == RunHighLlm(QState, <<r, IF web[r] THEN "query" ELSE "answer">>)
     IN  /\ rec'  = [rec EXCEPT ![r] = record]
         /\ disk' = record
         /\ IF IdempotencyHit(record, mid[r])
              THEN /\ resp' = [resp EXCEPT ![r] = Replay(record, mid[r], r)]
                   /\ LockRelease(r)
                   /\ pc' = [pc EXCEPT ![r] = "done"]
                   /\ UNCHANGED <<queueVars, calls>>
              ELSE /\ SetQueue(q)
                   /\ calls' = [x \in Reqs |-> CallsAfter(x, q.act)]
                   /\ pc' = [pc EXCEPT ![r] = IF web[r] THEN "query" ELSE "answer"]
                   /\ UNCHANGED <<resp, released, queues, settled>>
  /\ UNCHANGED <<extraVars, arrivals, oneVars, key, previous, outcome, mid, stream, override, web,
                 closedAt, aborted, doneBefore>>

\* the started task t of turn r settles: the continuation of the awaiting
\* handler runs (it mutates the record, saves, calls runHighLlm for `push`
\* and may leave withChatLock), then the queue's finally handler
TaskStep(r, t, newRec, newDisk, push, newPc, leave) ==
  /\ ~Urgent
  /\ t \in active
  /\ LET q0 == IF push = "none" THEN QState ELSE RunHighLlm(QState, <<r, push>>)
         q  == Finally(q0, t)
     IN  /\ SetQueue(q)
         /\ calls' = [x \in Reqs |-> CallsAfter(x, q.act)]
  /\ rec'  = [rec EXCEPT ![r] = newRec]
  /\ disk' = newDisk
  /\ pc'   = [pc EXCEPT ![r] = newPc]
  /\ IF leave THEN LockRelease(r) ELSE UNCHANGED <<released, queues>>
  /\ UNCHANGED <<extraVars, arrivals, oneVars, key, previous, outcome, settled, mid, stream, override, web,
                 closedAt, aborted, doneBefore>>

\* generateSearchQuery settles (its failure falls back to the prompt); the
\* web agent is called if WEB_AGENT_URL is configured (lines 301-391)
QueryDone(r, configured) ==
  /\ TaskStep(r, <<r, "query">>, rec[r], disk,
              IF configured THEN "none" ELSE "answer",
              IF configured THEN "web" ELSE "answer", FALSE)
  /\ UNCHANGED resp

\* streamWebAgent / callWebAgent returns or fails; the answer call is
\* handed to the queue (lines 393-426 / 463-470)
WebDone(r) ==
  /\ ~Urgent
  /\ pc[r] = "web"
  /\ LET q == RunHighLlm(QState, <<r, "answer">>)
     IN  /\ SetQueue(q)
         /\ calls' = [x \in Reqs |-> CallsAfter(x, q.act)]
  /\ pc' = [pc EXCEPT ![r] = "answer"]
  /\ UNCHANGED <<extraVars, arrivals, oneVars, key, queues, previous, released, outcome, settled, mid,
                 stream, override, web, closedAt, aborted, rec, disk, resp,
                 doneBefore>>

\* how the answer call of turn r can end: callOllamaChat returns or throws;
\* streamOllamaChat returns completed, returns not completed (aborted, or no
\* content and no done marker) or throws
AnswerOutcomes(r) ==
  IF ~stream[r] THEN {"ok", "throw"}
  ELSE IF aborted[r] THEN {"incomplete", "throw"}
  ELSE {"ok", "incomplete", "throw"}

\* the answer call settles (lines 418-461, 463-503, 509-545, 562-610);
\* on success finalizeChatTurn and the start of runPostAnswerUpdates
AnswerDone(r, out) ==
  /\ out \in AnswerOutcomes(r)
  /\ IF out = "ok"
       THEN LET fin == FinalizeChatTurn(rec[r], r, mid[r])
            IN  /\ TaskStep(r, <<r, "answer">>, fin, fin,
                            IF fin.title THEN "topic" ELSE "title",
                            IF fin.title THEN "topic" ELSE "title",
                            stream[r])
                /\ resp' = [resp EXCEPT ![r] =
                              [kind |-> "answer", turn |-> r, polished |-> FALSE]]
       ELSE /\ TaskStep(r, <<r, "answer">>, rec[r], disk, "none", "done", TRUE)
            /\ resp' = [resp EXCEPT ![r] =
                          [kind |-> IF out = "throw" THEN "error" ELSE "unended",
                           turn |-> 0, polished |-> FALSE]]

\* generateTitle settles; got: a title was generated or derived from the
\* prompt (updateTopicAndTitle, lines 1652-1697)
TitleDone(r, got) ==
  LET newRec == [rec[r] EXCEPT !.title = got]
  IN  /\ TaskStep(r, <<r, "title">>, newRec,
                  IF got THEN newRec ELSE disk, "topic", "topic", FALSE)
      /\ UNCHANGED resp

\* what follows maybePolishAnswer in runPostAnswerUpdates (lines 1516-1520):
\* the memory update if shouldUpdateMemory, else the final saves
AfterPolishPush(mem) == IF mem THEN "memory" ELSE "none"
AfterPolishPc(mem)   == IF mem THEN "memory" ELSE "done"

\* generateTopic settles; the record is saved; long: the answer has at least
\* POLISH_MIN_CHARS characters; mem: shouldUpdateMemory (lines 1698-1734)
TopicDone(r, long, mem) ==
  /\ TaskStep(r, <<r, "topic">>, rec[r], rec[r],
              IF long THEN "polish" ELSE AfterPolishPush(mem),
              IF long THEN "polish" ELSE AfterPolishPc(mem),
              ~long /\ ~mem /\ ~stream[r])
  /\ UNCHANGED resp

\* the polish call settles; applied: it returned a text that differs from
\* the answer (lines 1593-1641, 1516-1520)
PolishDone(r, applied, mem) ==
  LET newRec == IF applied THEN ApplyPolish(rec[r], mid[r]) ELSE rec[r]
  IN  /\ TaskStep(r, <<r, "polish">>, newRec,
                  IF applied \/ ~mem THEN newRec ELSE disk,
                  AfterPolishPush(mem), AfterPolishPc(mem),
                  ~mem /\ ~stream[r])
      /\ UNCHANGED resp

\* updateMemory settles; the record is saved (lines 1750-1758, 1518-1520)
MemoryDone(r) ==
  /\ TaskStep(r, <<r, "memory">>, rec[r], rec[r], "none", "done", ~stream[r])
  /\ UNCHANGED resp

\* the client of a streamed turn disconnects: the response emits 'close';
\* onClose runs only if streamOllamaChat has registered it (lines 1346-1351)
Close(r) ==
  /\ ~Urgent
  /\ stream[r]
  /\ closedAt[r] = "open"
  /\ pc[r] \in {"classify", "lockwait", "query", "web", "answer"}
  /\ closedAt' = [closedAt EXCEPT ![r] =
                    IF pc[r] = "answer" /\ <<r, "answer">> \notin active
                      THEN "admission" ELSE pc[r]]
  /\ aborted'  = [aborted EXCEPT ![r] = <<r, "answer">> \in active]
  /\ UNCHANGED <<extraVars, arrivals, oneVars, lockVars, queueVars, mid, stream, override, web, rec, disk,
                 resp, calls, doneBefore>>

Next ==
  \/ \E r \in Reqs, m \in Mids, s \in BOOLEAN, o \in BOOLEAN : Submit(r, m, s, o)
  \/ \E r \in Reqs, e \in BOOLEAN, n \in BOOLEAN, i \in BOOLEAN :
       ClassifyDone(r, e, n, i)
  \/ \E r \in Reqs : FnStart(r)
  \/ \E r \in Reqs, c \in BOOLEAN : QueryDone(r, c)
  \/ \E r \in Reqs : WebDone(r)
  \/ \E r \in Reqs, out \in {"ok", "incomplete", "throw"} : AnswerDone(r, out)
  \/ \E r \in Reqs, got \in BOOLEAN : TitleDone(r, got)
  \/ \E r \in Reqs, long \in BOOLEAN, mem \in BOOLEAN : TopicDone(r, long, mem)
  \/ \E r \in Reqs, a \in BOOLEAN, mem \in BOOLEAN : PolishDone(r, a, mem)
  \/ \E r \in Reqs : MemoryDone(r)
  \/ \E r \in Reqs : Close(r)

Spec == Init /\ [][Next]_vars

----------------------------------------------------------------------------
(* TurnSpec: one POST /api/chat request alone on its conversation, followed *)
(* from the arrival of the request to the end of its response and the     *)
(* finalization of the turn; the lock and the admission queue are          *)
(* uncontended, the enrichment that follows finalization is in Spec.       *)

MaxAgentEvents == 2   \* NDJSON lines read from the web agent's stream
MaxChunks      == 2   \* chunks read from the inference stream

\* a JSON value of the request body (b, n, s: its boolean, number or string)
Undefined     == [type |-> "undefined", b |-> FALSE, n |-> 0, s |-> ""]
JsonNull      == [type |-> "null", b |-> FALSE, n |-> 0, s |-> ""]
JsonBool(v)   == [type |-> "boolean", b |-> v, n |-> 0, s |-> ""]
JsonNumber(v) == [type |-> "number", b |-> FALSE, n |-> v, s |-> ""]
JsonString(v) == [type |-> "string", b |-> FALSE, n |-> 0, s |-> v]

\* the values of use_web / web_search that requests carry
RawOverrides ==
  {Undefined, JsonNull, JsonBool(TRUE), JsonNumber(2), JsonString(" OFF "),
   JsonString("maybe")}

\* value.trim().toLowerCase() on the strings of RawOverrides
TrimLower(s) == IF s = " OFF " THEN "off" ELSE s

\* parseBooleanOverride(value); null, true, false as "null", "true", "false"
ParseBooleanOverride(v) ==
  IF v.type \in {"undefined", "null"} THEN "null"
  ELSE IF v.type = "boolean" THEN (IF v.b THEN "true" ELSE "false")
  ELSE IF (v.type = "number" /\ v.n = 1) \/ (v.type = "string" /\ v.s = "1")
    THEN "true"
  ELSE IF (v.type = "number" /\ v.n = 0) \/ (v.type = "string" /\ v.s = "0")
    THEN "false"
  ELSE IF v.type = "string" /\ TrimLower(v.s) \in {"true", "yes", "on"}
    THEN "true"
  ELSE IF v.type = "string" /\ TrimLower(v.s) \in {"false", "no", "off"}
    THEN "false"
  ELSE "null"

\* override === null
MissingRoutingChoiceNever(ovr) == FALSE
MissingRoutingChoice(ovr) == ovr = "null"

\* what the helpers of the routing decision see in a prompt
Prompts ==
  [conversational : BOOLEAN, explicitSearch : BOOLEAN, trigger : BOOLEAN]

\* isInformationSeekingPromptHeuristic(prompt) on a non-empty prompt
IsInformationSeekingPromptHeuristic(p) ==
  IF p.conversational THEN FALSE
  ELSE p.explicitSearch \/ p.trigger

\* how the classifier call of determineInfoSeeking ends: it throws (error
\* status, timeout), returns text that holds no JSON object, or returns an
\* object whose info_seeking / needs_web are true, false or not boolean and
\* whose reason is a non-empty string or not
Tri == {"true", "false", "absent"}
ClassifierOutputs ==
  [kind : {"throw", "nojson"}, info : {"absent"}, needs : {"absent"},
   reason : {FALSE}]
  \cup [kind : {"object"}, info : Tri, needs : Tri, reason : BOOLEAN]

NoRoute ==
  [infoSeeking |-> FALSE, needsWeb |-> FALSE, reason |-> "", source |-> ""]

\* determineInfoSeeking({prompt}) for a non-empty prompt: the route returned
DetermineInfoSeeking(p, out) ==
  LET fallbackInfo == IsInformationSeekingPromptHeuristic(p)
      fallback == [infoSeeking |-> fallbackInfo, needsWeb |-> fallbackInfo,
                   reason |-> "heuristic", source |-> "heuristic"]
      infoSeeking == IF out.info # "absent" THEN out.info = "true"
                     ELSE IF out.needs # "absent" THEN out.needs = "true"
                     ELSE fallback.infoSeeking
      needsWeb == IF out.needs # "absent" THEN out.needs = "true"
                  ELSE infoSeeking
  IN  IF out.kind = "object"
        THEN [infoSeeking |-> infoSeeking, needsWeb |-> needsWeb,
              reason |-> IF out.reason THEN "llm_reason" ELSE "classifier",
              source |-> "llm"]
        ELSE fallback

\* webReason
WebReason(ovr, use, explicitSearch, route) ==
  IF ovr
    THEN IF use
           THEN IF explicitSearch THEN "explicit_search" ELSE route.reason
           ELSE "non_info_prompt"
    ELSE "client_override_off"

\* the sources a call carries: none or one source
NoSources   == <<>>
SomeSources == <<"s1">>

\* an NDJSON line written to the response; from: who produced the line
Event(stage, from, done, sources) ==
  [stage |-> stage, from |-> from, done |-> done, sources |-> sources,
   error |-> FALSE]

\* the last line of a stream that failed: an error message and done: true
ErrorEvent(stage) ==
  [stage |-> stage, from |-> "server", done |-> TRUE, sources |-> NoSources,
   error |-> TRUE]

\* startStreamResponse(res)
StartStreamResponse(rs) ==
  IF rs.headersSent THEN rs
  ELSE [rs EXCEPT !.headersSent = TRUE, !.statusCode = 200]

\* writeNdjson(res, payload); res.write(chunk) guarded by !res.writableEnded
WriteNdjsonFirst(rs, ev) ==
  IF rs.writableEnded THEN rs ELSE [rs EXCEPT !.events = <<ev>> \o @]
WriteNdjson(rs, ev) ==
  IF rs.writableEnded THEN rs ELSE [rs EXCEPT !.events = Append(@, ev)]

\* if (!res.writableEnded) res.end()
End(rs) == [rs EXCEPT !.writableEnded = TRUE]

\* respondJson(res, status, payload); body: which payload, sources: its
\* sources field
RespondJson(rs, status, body, sources) ==
  [rs EXCEPT !.headersSent = TRUE, !.statusCode = status,
             !.writableEnded = TRUE, !.body = body, !.sources = sources]

\* the catch of the server's request handler
ServerCatch(rs) ==
  IF rs.headersSent THEN End(rs) ELSE RespondJson(rs, 500, "error", NoSources)

\* the state of the conversation's record, as far as this request's message
\* id goes
RecordStates ==
  [exists : {FALSE}, entry : {FALSE}, sources : {NoSources}]
  \cup [exists : {TRUE}, entry : {FALSE}, sources : {NoSources}]
  \cup [exists : {TRUE}, entry : {TRUE}, sources : {NoSources, SomeSources}]

\* a line written by handleChat itself that is not the last one
Stage(stage) == Event(stage, "server", FALSE, NoSources)

\* several writeNdjson calls in a row
WriteAll(rs, evs) ==
  IF rs.writableEnded THEN rs ELSE [rs EXCEPT !.events = @ \o evs]

\* streamWebAgent: sawSources, sawDone, sources and the lines read so far;
\* sawError: the agent reported a failure of its own in a line
NoAgent ==
  [n |-> 0, sawSources |-> FALSE, sawDone |-> FALSE, sawError |-> FALSE,
   sources |-> NoSources]

\* streamOllamaChat: the chunks read, the length of answer, sawDone
NoAnswer == [n |-> 0, len |-> 0, sawDone |-> FALSE]

TurnInit ==
  /\ MemIdle /\ AsmIdle /\ AgentIdle
  /\ ChatIdle /\ OrderIdle /\ StoreIdle /\ BudgetIdle
  /\ pc        = <<>>
  /\ key       = <<>>
  /\ queues    = [k \in Keys |-> NoPromise]
  /\ previous  = <<>>
  /\ released  = <<>>
  /\ outcome   = <<>>
  /\ highQueue = <<>>
  /\ running   = FALSE
  /\ active    = {}
  /\ settled   = {}
  /\ mid       = <<>>
  /\ stream    = <<>>
  /\ override  = <<>>
  /\ web       = <<>>
  /\ closedAt  = <<>>
  /\ aborted   = <<>>
  /\ rec       = <<>>
  /\ disk      = <<>>
  /\ resp      = <<>>
  /\ calls     = <<>>
  /\ doneBefore = <<>>
  /\ arrivals  = <<>>
  /\ \E url \in BOOLEAN :
       req = [pc |-> "idle", raw |-> Undefined, useStream |-> FALSE,
              override |-> "null",
              prompt |-> [conversational |-> FALSE, explicitSearch |-> FALSE,
                          trigger |-> FALSE],
              route |-> NoRoute, use |-> FALSE, reason |-> "",
              webAgentUrl |-> url, sources |-> NoSources,
              sourcesSent |-> FALSE, agent |-> NoAgent,
              agentOutcome |-> "none", answer |-> NoAnswer,
              answerOutcome |-> "none"]
  /\ res = [headersSent |-> FALSE, statusCode |-> 0, writableEnded |-> FALSE,
            events |-> <<>>, body |-> "none", sources |-> NoSources]
  /\ \E before \in RecordStates :
       effects = [locked |-> FALSE, before |-> before, record |-> before,
                  calls |-> {}]

\* the request arrives and passes validation; the override is parsed
\* (lines 135-203): MissingRoutingChoice, or the classifier call is sent
TReceive(uw, ws, s, p) ==
  /\ req.pc = "idle"
  /\ LET raw == IF uw.type # "undefined" THEN uw ELSE ws
         ovr == ParseBooleanOverride(raw)
         r1  == [req EXCEPT !.raw = raw, !.useStream = s, !.override = ovr,
                            !.prompt = p]
     IN  IF MissingRoutingChoice(ovr)
           THEN /\ req' = [r1 EXCEPT !.pc = "done"]
                /\ res' = IF s
                            THEN End(WriteNdjson(StartStreamResponse(res),
                                           ErrorEvent("error")))
                            ELSE RespondJson(res, 400, "error", NoSources)
                /\ UNCHANGED effects
           ELSE /\ req' = [r1 EXCEPT !.pc = "classify"]
                /\ effects' = [effects EXCEPT !.calls = @ \cup {"classify"}]
                /\ UNCHANGED res
  /\ UNCHANGED <<lockVars, queueVars, turnVars, arrivals, extraVars>>

\* the idempotency replay (lines 220-244)
ReplayResponse(rs, s, cachedSources) ==
  IF s
    THEN End(WriteAll(StartStreamResponse(rs),
               (IF cachedSources # NoSources
                  THEN <<Event("sources", "server", FALSE, cachedSources)>>
                  ELSE <<>>)
               \o <<Event("message", "server", TRUE, NoSources)>>))
    ELSE RespondJson(rs, 200, "answer", cachedSources)

\* the stream opened with the routing events (lines 248-270)
RoutingEvents(rs, ovr, infoSeeking) ==
  WriteAll(StartStreamResponse(rs),
    <<Stage("routing"), Stage("routing_decision")>>
    \o (IF ovr /\ ~infoSeeking THEN <<Stage("analysis")>> ELSE <<>>))

\* the classifier call settles; routing decision, withChatLock, the record
\* is loaded or created, replay or the first call of the turn (lines 204-311,
\* 506-570)
TClassified(out) ==
  /\ req.pc = "classify"
  /\ LET route  == DetermineInfoSeeking(req.prompt, out)
         ovr    == req.override = "true"
         use    == ShouldUseWeb(ovr, req.prompt.explicitSearch,
                                route.needsWeb, route.infoSeeking)
         reason == WebReason(ovr, use, req.prompt.explicitSearch, route)
         record == [effects.record EXCEPT !.exists = TRUE]
         r1     == [req EXCEPT !.route = route, !.use = use, !.reason = reason]
         s      == req.useStream
         rs1    == IF s THEN RoutingEvents(res, ovr, route.infoSeeking) ELSE res
     IN  IF record.entry
           THEN /\ req' = [r1 EXCEPT !.pc = "done"]
                /\ res' = ReplayResponse(res, s, record.sources)
                /\ effects' = [effects EXCEPT !.locked = TRUE, !.record = record]
           ELSE /\ req' = [r1 EXCEPT !.pc = IF use THEN "query" ELSE "answer"]
                /\ res' = IF ~s THEN res
                          ELSE IF use THEN WriteNdjson(rs1, Stage("analysis"))
                          ELSE WriteAll(rs1, <<Stage("digest_prompt"),
                                               Stage("analysis")>>)
                /\ effects' = [effects EXCEPT
                                 !.locked = TRUE, !.record = record,
                                 !.calls = @ \cup {IF use THEN "query"
                                                   ELSE "answer"}]
  /\ UNCHANGED <<lockVars, queueVars, turnVars, arrivals, extraVars>>

\* lines 393-426 / 463-470: the sources are put into the prompt and the
\* answer call is handed to runHighLlm
AfterAgent(r1, rs1) ==
  LET send == /\ r1.useStream /\ r1.sources # NoSources
              /\ ~r1.sourcesSent /\ ~rs1.writableEnded
  IN  [req |-> [r1 EXCEPT !.pc = "answer", !.sourcesSent = @ \/ send],
       res |-> IF ~r1.useStream THEN rs1
               ELSE WriteAll(rs1,
                      (IF send
                         THEN <<Event("sources", "server", FALSE, r1.sources)>>
                         ELSE <<>>)
                      \o <<Stage("analysis")>>)]

\* generateSearchQuery settles; the web agent is called if WEB_AGENT_URL is
\* set (lines 301-356, 377-386)
TQueryDone(out) ==
  /\ req.pc = "query"
  /\ LET rs1 == IF req.useStream /\ out = "timeout"
                  THEN WriteNdjson(res, Stage("analysis")) ELSE res
         x   == AfterAgent([req EXCEPT !.agentOutcome = "unconfigured"],
                           IF req.useStream
                             THEN WriteNdjson(rs1, Stage("web_agent_unavailable"))
                             ELSE rs1)
     IN  IF ~req.webAgentUrl
           THEN /\ req' = x.req
                /\ res' = x.res
                /\ effects' = [effects EXCEPT !.calls = @ \cup {"answer"}]
           ELSE /\ req' = [req EXCEPT !.pc = "agent"]
                /\ res' = rs1
                /\ effects' = [effects EXCEPT !.calls = @ \cup {"agent"}]
  /\ UNCHANGED <<lockVars, queueVars, turnVars, arrivals, extraVars>>

\* how the request to the web agent is answered: callWebAgent returns the
\* sources of the payload or throws; streamWebAgent gets a response with a
\* body or throws (error status, no body, timeout, network error)
AgentResponses(s) ==
  IF s THEN {"ok", "status", "nobody", "timeout", "network"}
  ELSE {"sources_none", "sources_some", "status", "timeout", "network"}

\* the response of the web agent arrives or the request fails
\* (client.js 53-84, 105-128; server lines 357-391)
TAgentResponse(out) ==
  /\ req.pc = "agent"
  /\ out \in AgentResponses(req.useStream)
  /\ IF req.useStream /\ out = "ok"
       THEN /\ req' = [req EXCEPT !.pc = "agentread"]
            /\ UNCHANGED <<res, effects>>
       ELSE LET failed == out \notin {"sources_none", "sources_some"}
                r1 == [req EXCEPT
                         !.sources = IF out = "sources_some" THEN SomeSources
                                     ELSE NoSources,
                         !.agentOutcome = IF failed THEN out ELSE "ok"]
                rs1 == IF req.useStream
                         THEN WriteNdjson(res, Stage("web_agent_failed"))
                         ELSE res
                x == AfterAgent(r1, rs1)
            IN  /\ req' = x.req
                /\ res' = x.res
                /\ effects' = [effects EXCEPT !.calls = @ \cup {"answer"}]
  /\ UNCHANGED <<lockVars, queueVars, turnVars, arrivals, extraVars>>

\* the NDJSON lines a web agent sends: a stage event, the sources event, the
\* error event of the agent's catch (agent/server.js 104-158)
AgentLines ==
  { [stage |-> "search_started", hasSources |-> FALSE, sources |-> NoSources,
     done |-> FALSE],
    [stage |-> "sources", hasSources |-> TRUE, sources |-> NoSources,
     done |-> FALSE],
    [stage |-> "sources", hasSources |-> TRUE, sources |-> SomeSources,
     done |-> FALSE],
    [stage |-> "error", hasSources |-> FALSE, sources |-> NoSources,
     done |-> TRUE] }

\* onEvent of handleChat: the line is passed on with done: true cleared
Relayed(line) ==
  [stage |-> line.stage, from |-> "agent",
   done |-> IF line.done = TRUE THEN FALSE ELSE line.done,
   sources |-> line.sources, error |-> line.stage = "error"]

\* streamWebAgent reads a line of the agent's stream (client.js 137-178)
TAgentLine(line) ==
  /\ req.pc = "agentread"
  /\ req.agent.n < MaxAgentEvents
  /\ req' = [req EXCEPT !.agent =
               [n          |-> @.n + 1,
                sawSources |-> @.sawSources \/ line.hasSources
                                 \/ line.stage = "sources",
                sawDone    |-> @.sawDone \/ line.done,
                sawError   |-> @.sawError \/ line.stage = "error",
                sources    |-> IF line.hasSources THEN line.sources
                               ELSE @.sources]]
  /\ res' = WriteNdjson(res, Relayed(line))
  /\ UNCHANGED <<effects, lockVars, queueVars, turnVars, arrivals, extraVars>>

\* the agent's stream ends: streamWebAgent returns (client.js 214-219,
\* server lines 357-369)
TAgentEnd ==
  /\ req.pc = "agentread"
  /\ LET completed == req.agent.sawDone \/ req.agent.sawSources
         sources   == req.agent.sources
         rs1  == IF ~completed
                   THEN WriteNdjson(res, Stage("web_agent_failed")) ELSE res
         send == ~req.agent.sawSources /\ sources # NoSources
                 /\ ~rs1.writableEnded
         rs2  == IF send
                   THEN WriteNdjson(rs1, Event("sources", "server", FALSE, sources))
                   ELSE rs1
         r1   == [req EXCEPT
                    !.sources = sources, !.sourcesSent = send,
                    !.agentOutcome = IF req.agent.sawError THEN "inband_error"
                                     ELSE IF completed THEN "ok"
                                     ELSE "incomplete"]
         x    == AfterAgent(r1, rs2)
     IN  /\ req' = x.req
         /\ res' = x.res
         /\ effects' = [effects EXCEPT !.calls = @ \cup {"answer"}]
  /\ UNCHANGED <<lockVars, queueVars, turnVars, arrivals, extraVars>>

\* reader.read() rejects while the agent's stream is read: the timeout
\* aborts the request or the connection breaks (client.js 220-225, server
\* lines 370-376)
TAgentAbort(kind) ==
  /\ req.pc = "agentread"
  /\ LET x == AfterAgent([req EXCEPT !.agentOutcome = kind],
                         WriteNdjson(res, Stage("web_agent_failed")))
     IN  /\ req' = x.req
         /\ res' = x.res
         /\ effects' = [effects EXCEPT !.calls = @ \cup {"answer"}]
  /\ UNCHANGED <<lockVars, queueVars, turnVars, arrivals, extraVars>>

\* how the answer request is answered: callOllamaChat returns or throws;
\* streamOllamaChat gets a response with a body or throws (error status, no
\* body, network error)
AnswerResponses(s) ==
  IF s THEN {"ok", "status", "nobody", "network"} ELSE {"ok", "throw"}

\* finalizeChatTurn: the idempotency entry written for the message id
FinalizeEntryPartial(record, sources) == [record EXCEPT !.sources = sources]
FinalizeEntry(record, sources) ==
  [record EXCEPT !.entry = TRUE, !.sources = sources]

\* the answer call threw: the catch of the streamed local path (lines
\* 603-610); on every other path the error leaves handleChat and reaches the
\* catch of the request handler (lines 113-122)
AnswerThrown(rs, s, use) ==
  IF s /\ ~use
    THEN IF ~rs.headersSent THEN RespondJson(rs, 502, "error", NoSources)
         ELSE IF ~rs.writableEnded
           THEN End(WriteNdjson(rs, ErrorEvent("")))
         ELSE rs
    ELSE ServerCatch(rs)

\* the response of the inference service to the answer call arrives, or the
\* call fails (lines 418-426, 463-490, 509-531, 562-570, 1353-1371)
TAnswerResponse(out) ==
  /\ req.pc = "answer"
  /\ out \in AnswerResponses(req.useStream)
  /\ IF out # "ok"
       THEN /\ req' = [req EXCEPT !.pc = "done", !.answerOutcome = "failed"]
            /\ res' = AnswerThrown(res, req.useStream, req.use)
            /\ UNCHANGED effects
       ELSE IF req.useStream
         THEN /\ req' = [req EXCEPT !.pc = "answerread"]
              /\ res' = StartStreamResponse(res)
              /\ UNCHANGED effects
         ELSE /\ req' = [req EXCEPT !.pc = "done", !.answerOutcome = "ok"]
              /\ res' = RespondJson(res, 200, "answer",
                                    IF req.use THEN req.sources ELSE NoSources)
              /\ effects' = [effects EXCEPT !.record =
                               FinalizeEntry(@, req.sources)]
  /\ UNCHANGED <<lockVars, queueVars, turnVars, arrivals, extraVars>>

\* streamOllamaChat reads a chunk and passes it on: a token of the answer
\* or the line with done: true (lines 1375-1400)
TAnswerChunk(c) ==
  /\ req.pc = "answerread"
  /\ req.answer.n < MaxChunks
  /\ req' = [req EXCEPT !.answer =
               [n       |-> @.n + 1,
                len     |-> @.len + (IF c = "token" THEN 1 ELSE 0),
                sawDone |-> @.sawDone \/ c = "done"]]
  /\ res' = WriteNdjson(res, Event(c, "model", c = "done", NoSources))
  /\ UNCHANGED <<effects, lockVars, queueVars, turnVars, arrivals, extraVars>>

\* the inference stream ends: streamOllamaChat returns; the turn is
\* finalized if the answer is complete and not empty (lines 1417-1426,
\* 428-460, 572-602)
TAnswerEnd ==
  /\ req.pc = "answerread"
  /\ LET completed == req.answer.sawDone \/ req.answer.len > 0
     IN  IF ~completed \/ req.answer.len = 0
           THEN /\ req' = [req EXCEPT !.pc = "done",
                                      !.answerOutcome = "incomplete"]
                /\ UNCHANGED <<res, effects>>
           ELSE /\ req' = [req EXCEPT !.pc = "done", !.answerOutcome = "ok"]
                /\ res' = End(res)
                /\ effects' = [effects EXCEPT !.record =
                                 FinalizeEntry(@, req.sources)]
  /\ UNCHANGED <<lockVars, queueVars, turnVars, arrivals, extraVars>>

\* reader.read() rejects while the inference stream is read
TAnswerAbort ==
  /\ req.pc = "answerread"
  /\ req' = [req EXCEPT !.pc = "done", !.answerOutcome = "failed"]
  /\ res' = AnswerThrown(res, req.useStream, req.use)
  /\ UNCHANGED <<effects, lockVars, queueVars, turnVars, arrivals, extraVars>>

TurnNext ==
  \/ \E uw \in RawOverrides, ws \in RawOverrides, s \in BOOLEAN, p \in Prompts :
       TReceive(uw, ws, s, p)
  \/ \E out \in ClassifierOutputs : TClassified(out)
  \/ \E out \in {"ok", "timeout", "throw"} : TQueryDone(out)
  \/ \E out \in AgentResponses(TRUE) \cup AgentResponses(FALSE) :
       TAgentResponse(out)
  \/ \E line \in AgentLines : TAgentLine(line)
  \/ TAgentEnd
  \/ \E kind \in {"timeout", "network"} : TAgentAbort(kind)
  \/ \E out \in AnswerResponses(TRUE) \cup AnswerResponses(FALSE) :
       TAnswerResponse(out)
  \/ \E c \in {"token", "done"} : TAnswerChunk(c)
  \/ TAnswerEnd
  \/ TAnswerAbort

TurnSpec == TurnInit /\ [][TurnNext]_vars

\* every upstream call of the turn (classifier, query, web agent, answer)
\* eventually returns or fails, and a stream that is read eventually ends
TurnUpstream ==
  \/ \E out \in ClassifierOutputs : TClassified(out)
  \/ \E out \in {"ok", "timeout", "throw"} : TQueryDone(out)
  \/ \E out \in AgentResponses(TRUE) \cup AgentResponses(FALSE) :
       TAgentResponse(out)
  \/ TAgentEnd
  \/ \E kind \in {"timeout", "network"} : TAgentAbort(kind)
  \/ \E out \in AnswerResponses(TRUE) \cup AnswerResponses(FALSE) :
       TAnswerResponse(out)
  \/ TAnswerEnd
  \/ TAnswerAbort

TurnLiveSpec == TurnSpec /\ WF_vars(TurnUpstream)

----------------------------------------------------------------------------
(* AssembleSpec: the message list handleChat sends to the answer model:     *)
(* buildPromptMessages, injectTopicIntoMessages, injectNonInfoHint and, on  *)
(* the web path, injectSourcesIntoMessages.  A message is its role and the  *)
(* kind of its content.                                                     *)

MaxRecent == 2    \* recent user messages selected into the prompt
MaxSources == 2   \* sources the web agent returns

Msg(role, kind) == [role |-> role, kind |-> kind]

\* the sources a web agent result can hold: each with a url or without
AgentSources == UNION {[1..n -> [url : BOOLEAN]] : n \in 0..MaxSources}

\* what the assembly of a turn depends on
AssembleInputs ==
  [memoryBlock : BOOLEAN, recent : 0..MaxRecent, topic : BOOLEAN,
   ovr : BOOLEAN, explicitSearch : BOOLEAN, infoSeeking : BOOLEAN,
   needsWeb : BOOLEAN, agentSources : AgentSources]

\* buildPromptMessages: memory.js lines 305-332
PromptMessages(memoryBlock, recent) ==
  <<Msg("system", "instruction")>>
  \o (IF memoryBlock THEN <<Msg("system", "memory")>> ELSE <<>>)
  \o [i \in 1..recent |-> Msg("user", "recent")]
  \o <<Msg("user", "prompt")>>

\* output.splice(insertAt, 0, item)
Splice(messages, insertAt, item) ==
  SubSeq(messages, 1, insertAt) \o <<item>>
  \o SubSeq(messages, insertAt + 1, Len(messages))

\* messages.slice(0, -1), the item, then the last message
BeforeLast(messages, item) ==
  SubSeq(messages, 1, Len(messages) - 1) \o <<item>>
  \o <<messages[Len(messages)]>>

\* injectTopicIntoMessages: lines 900-910
InjectTopicIntoMessages(messages, topic) ==
  IF ~topic \/ messages = <<>> THEN messages
  ELSE Splice(messages,
              IF Len(messages) > 1 /\ messages[2].role = "system" THEN 2
              ELSE 1,
              Msg("system", "topic"))

\* injectNonInfoHint: lines 912-927
InjectNonInfoHint(messages, infoSeeking) ==
  IF infoSeeking \/ messages = <<>> THEN messages
  ELSE BeforeLast(messages, Msg("system", "hint"))

\* buildSourcesContext: lines 974-988, empty or the numbered list
BuildSourcesContext(sources) ==
  \E i \in 1..Len(sources) : sources[i].url

\* injectSourcesIntoMessages: lines 929-972
InjectSourcesIntoMessages(messages, sources, explicitSearch, infoSeeking) ==
  IF messages = <<>> \/ sources = <<>> THEN messages
  ELSE IF ~BuildSourcesContext(sources) THEN messages
  ELSE IF ~explicitSearch /\ ~infoSeeking
    THEN BeforeLast(messages, Msg("system", "nosources"))
  ELSE BeforeLast(messages, Msg("system", "sources"))

NotAssembled == [built |-> FALSE, sources |-> <<>>, messages |-> <<>>]

AssembleInit ==
  /\ CoreIdle /\ BudgetIdle /\ MemIdle /\ AgentIdle
  /\ asmIn \in AssembleInputs
  /\ asmOut = NotAssembled

\* handleChat lines 272-291 and, when the turn uses the web, 386-398
AssembleMessages ==
  /\ ~asmOut.built
  /\ LET localPromptMessages ==
           InjectNonInfoHint(
             InjectTopicIntoMessages(
               PromptMessages(asmIn.memoryBlock, asmIn.recent), asmIn.topic),
             asmIn.infoSeeking)
         use == ShouldUseWeb(asmIn.ovr, asmIn.explicitSearch, asmIn.needsWeb,
                             asmIn.infoSeeking)
         sources == IF use THEN asmIn.agentSources ELSE <<>>
     IN  asmOut' = [built |-> TRUE, sources |-> sources,
                    messages |-> IF use
                      THEN InjectSourcesIntoMessages(localPromptMessages,
                             sources, asmIn.explicitSearch, asmIn.infoSeeking)
                      ELSE localPromptMessages]
  /\ UNCHANGED <<lockVars, queueVars, turnVars, arrivals, oneVars, chat,
                 admitted, started, storeVars, budgetVars, memRec, memRun,
                 asmIn, agentIn, agentOut>>

AssembleNext == AssembleMessages

AssembleSpec == AssembleInit /\ [][AssembleNext]_vars

----------------------------------------------------------------------------
(* AgentSpec: one POST request to the web agent (agent/server.js            *)
(* handleAgent), sent by the orchestrator's client (agent/client.js         *)
(* callWebAgent, streamWebAgent) or by any other client.  A request body is *)
(* the set of fields it holds and their values.                             *)

\* texts: empty, blank, not blank
AgentTexts == {"", " ", "q"}

\* value.trim().length > 0
AgentNonEmpty(value) == value \notin {"", " "}

\* message lists a body can hold
AgentMessages ==
  {<<>>,
   <<[role |-> "user", content |-> "q"]>>,
   <<[role |-> "assistant", content |-> "q"]>>,
   <<[role |-> "user", content |-> "q"],
     [role |-> "assistant", content |-> "q"]>>}

\* the JSON body of callWebAgent (s = FALSE) and of streamWebAgent (s = TRUE):
\* client.js lines 58-66 and 110-118
ClientRequestBody(query, s) ==
  [fields |-> {"query", "user_id", "chat_id", "message_id", "client_ts",
               "model_id", "stream"},
   query |-> query, prompt |-> "", messages |-> <<>>, stream |-> s]

\* the bodies of the orchestrator's client, for a query that is not blank
ClientBodies == {ClientRequestBody("q", s) : s \in BOOLEAN}

\* bodies of other clients: a prompt field, a messages field, or neither
OtherBodies ==
  {[fields |-> f \cup {"stream"}, query |-> "", prompt |-> p,
    messages |-> ms, stream |-> s] :
     f \in SUBSET {"prompt", "messages"}, p \in AgentTexts,
     ms \in AgentMessages, s \in BOOLEAN}

\* the content of the last user message with content, "" if there is none
RECURSIVE LastUserContent(_, _)
LastUserContent(messages, i) ==
  IF i = 0 THEN ""
  ELSE IF messages[i].role = "user" /\ messages[i].content # ""
    THEN messages[i].content
  ELSE LastUserContent(messages, i - 1)

\* getPrompt: server.js lines 166-175
GetPrompt(payload) ==
  IF "prompt" \in payload.fields /\ AgentNonEmpty(payload.prompt)
    THEN payload.prompt
  ELSE IF "messages" \in payload.fields
    THEN LastUserContent(payload.messages, Len(payload.messages))
  ELSE ""

\* isStreamRequested(payload.stream)
AgentStreamRequested(payload) ==
  "stream" \in payload.fields /\ payload.stream

AgentReceived ==
  [pc |-> "received", status |-> 0, error |-> "", events |-> <<>>,
   sources |-> "none", ended |-> FALSE]

\* respondJson(res, status, { error })
AgentRespondError(status, error) ==
  [AgentReceived EXCEPT !.pc = "done", !.status = status, !.error = error,
                        !.ended = TRUE]

AgentInit ==
  /\ CoreIdle /\ BudgetIdle /\ MemIdle /\ AsmIdle
  /\ agentIn \in [from : {"client"}, body : ClientBodies, key : BOOLEAN]
                 \cup [from : {"other"}, body : OtherBodies, key : BOOLEAN]
  /\ agentOut = AgentReceived

\* handleAgent up to `await braveSearch` (lines 68-104); key: BRAVE_API_KEY
\* is configured
HandleAgent ==
  /\ agentOut.pc = "received"
  /\ LET prompt == GetPrompt(agentIn.body)
         useStream == AgentStreamRequested(agentIn.body)
     IN  agentOut' =
           IF ~AgentNonEmpty(prompt)
             THEN AgentRespondError(400, "Missing prompt.")
           ELSE IF ~agentIn.key
             THEN AgentRespondError(503, "BRAVE_API_KEY is not configured.")
           ELSE [AgentReceived EXCEPT
                   !.pc = "search",
                   !.status = IF useStream THEN 200 ELSE 0,
                   !.events = IF useStream
                                THEN <<"digest_prompt", "search_started">>
                                ELSE <<>>]
  /\ UNCHANGED <<lockVars, queueVars, turnVars, arrivals, oneVars, chat,
                 admitted, started, storeVars, budgetVars, memRec, memRun,
                 asmIn, asmOut, agentIn>>

\* the outcome of a step of the search: it throws, finds nothing, or
\* finds results
AgentFailed(useStream) ==
  IF useStream
    THEN [agentOut EXCEPT !.pc = "done", !.events = Append(@, "error"),
                          !.ended = TRUE]
    ELSE [agentOut EXCEPT !.pc = "done", !.status = 502,
                          !.error = "Web agent error.", !.ended = TRUE]
AgentSendSources(useStream, sources, before) ==
  [agentOut EXCEPT
     !.pc = "done",
     !.status = 200,
     !.events = IF useStream THEN @ \o before \o <<"sources">> ELSE @,
     !.sources = sources,
     !.ended = TRUE]

\* braveSearch settles (lines 100-121, 151-163)
AgentSearchDone(out) ==
  /\ agentOut.pc = "search"
  /\ LET useStream == AgentStreamRequested(agentIn.body)
     IN  agentOut' =
           IF out = "throw" THEN AgentFailed(useStream)
           ELSE IF out = "none"
             THEN AgentSendSources(useStream, "empty", <<"search_summary">>)
           ELSE [agentOut EXCEPT
                   !.pc = "fetch",
                   !.events = IF useStream
                                THEN @ \o <<"search_summary", "fetch_started">>
                                ELSE @]
  /\ UNCHANGED <<lockVars, queueVars, turnVars, arrivals, oneVars, chat,
                 admitted, started, storeVars, budgetVars, memRec, memRun,
                 asmIn, asmOut, agentIn>>

\* readSources settles (lines 123-150, 151-163)
AgentFetchDone(out) ==
  /\ agentOut.pc = "fetch"
  /\ LET useStream == AgentStreamRequested(agentIn.body)
     IN  agentOut' =
           IF out = "throw" THEN AgentFailed(useStream)
           ELSE AgentSendSources(useStream, "list", <<"fetch_complete">>)
  /\ UNCHANGED <<lockVars, queueVars, turnVars, arrivals, oneVars, chat,
                 admitted, started, storeVars, budgetVars, memRec, memRun,
                 asmIn, asmOut, agentIn>>

AgentNext ==
  \/ HandleAgent
  \/ \E out \in {"throw", "none", "some"} : AgentSearchDone(out)
  \/ \E out \in {"throw", "ok"} : AgentFetchDone(out)

AgentSpec == AgentInit /\ [][AgentNext]_vars

----------------------------------------------------------------------------
(* Helpers of the properties *)

\* the same message up to an in-place polish of its content
SameMessage(a, b) ==
  a.role = b.role /\ a.message_id = b.message_id /\ a.turn = b.turn

\* sequence a is a prefix of sequence b up to polish
PrefixUpToPolish(a, b) ==
  /\ Len(a) <= Len(b)
  /\ \A i \in 1..Len(a) : SameMessage(a[i], b[i])

\* the indexes of the user entries of raw that carry message id m
UserEntries(raw, m) ==
  {i \in 1..Len(raw) : raw[i].role = "user" /\ raw[i].message_id = m}

\* every request has been answered and no enrichment is left
Quiescent == \A r \in Reqs : pc[r] = "done"

\* turn r is persisted: a message of it or its idempotency entry is on disk
Persisted(r) ==
  \/ \E i \in 1..Len(disk.raw_messages) : disk.raw_messages[i].turn = r
  \/ \E m \in Mids : disk.idempotency[m].present /\ disk.idempotency[m].turn = r

----------------------------------------------------------------------------
\* C1: absent a delete, every save leaves the previously persisted
\* rawMessages as a prefix (up to polish) of the newly persisted rawMessages.
RawMessagesOnlyGrow ==
  [][(disk.exists /\ disk'.exists) =>
       PrefixUpToPolish(disk.raw_messages, disk'.raw_messages)]_vars

\* C2: two turns m1 then m2 submitted back-to-back (m1 received first, m2
\* received before m1 was answered) that both complete leave rawMessages
\* ending with user(m1), assistant, user(m2), assistant.
BackToBackInArrivalOrder ==
  ( /\ Quiescent
    /\ resp[1].kind = "answer" /\ resp[2].kind = "answer"
    /\ mid[1] # mid[2]
    /\ doneBefore[2] = {} )
  => LET raw == disk.raw_messages
         n   == Len(raw)
     IN  /\ n >= 4
         /\ raw[n - 3].role = "user" /\ raw[n - 3].message_id = mid[1]
         /\ raw[n - 2].role = "assistant" /\ raw[n - 2].turn = 1
         /\ raw[n - 1].role = "user" /\ raw[n - 1].message_id = mid[2]
         /\ raw[n].role = "assistant" /\ raw[n].turn = 2

\* C3: in every persisted record rawMessages has even length and alternates
\* user, assistant, each user entry being followed by the assistant entry of
\* the same turn.
PairsNeverInterleave ==
  LET raw == disk.raw_messages
  IN  /\ Len(raw) % 2 = 0
      /\ \A i \in 1..Len(raw) :
           IF i % 2 = 1
             THEN /\ raw[i].role = "user"
                  /\ raw[i + 1].role = "assistant"
                  /\ raw[i + 1].turn = raw[i].turn
             ELSE raw[i].role = "assistant"

\* two turns that were in progress at the same time are both persisted
TwoConcurrentTurnsPersisted ==
  /\ Len(disk.raw_messages) = 4
  /\ disk.raw_messages[1].turn # disk.raw_messages[3].turn
  /\ doneBefore[2] = {}

OneUserEntryPerMessageId ==
  \A m \in Mids : Cardinality(UserEntries(disk.raw_messages, m)) <= 1

\* a duplicate received while the first submission was still unanswered has
\* been replayed
ConcurrentDuplicateReplayed ==
  \E r, q \in Reqs :
    /\ r # q /\ mid[r] = mid[q]
    /\ doneBefore[q] = {}
    /\ resp[r].kind = "answer" /\ resp[q].kind = "replay"
    /\ Cardinality(UserEntries(disk.raw_messages, mid[q])) = 1

\* C6: a request answered from the idempotency index has caused no call to
\* the inference collaborator.
ReplayCallsNoInference ==
  \A r \in Reqs : resp[r].kind = "replay" => calls[r] = {}

\* C7: no two invocations of fn submitted with the same key are both
\* between their start and their settlement.
LockMutualExclusion ==
  \A c1, c2 \in Callers :
    (c1 # c2 /\ InFn(c1) /\ InFn(c2)) => key[c1] # key[c2]

\* a caller runs fn while another caller with the same key has already
\* called withChatLock and waits
LockContended ==
  \E c1, c2 \in Callers :
    /\ c1 # c2 /\ key[c1] = key[c2]
    /\ InFn(c1) /\ pc[c2] = "lockwait"

\* C8: at most one task handed to runHighLlm is started and not settled.
QueueOneAtATime == Cardinality(active) <= 1

\* a task runs while two other tasks wait in the queue and one has settled
QueueBusy ==
  /\ Cardinality(active) = 1
  /\ Len(highQueue) >= 2
  /\ settled # {}

\* C9: at most one inference request is in flight process-wide.
OneInferenceInFlight == Cardinality(InFlight) <= 1

\* C10: a streamed turn whose client disconnected during SearchAugmenting or
\* Answering (or while waiting for admission) is never finalized: no message
\* of the turn and no idempotency entry of it is persisted.
DisconnectNeverFinalizes ==
  \A r \in Reqs :
    closedAt[r] \in {"query", "web", "admission", "answer"} => ~Persisted(r)

\* C18: callers of withChatLock on one key run fn in the order of their
\* calls: when a caller's fn has started, the fn of every caller that called
\* earlier with the same key has settled.
LockFifo ==
  \A i, j \in 1..Len(arrivals) :
    ( /\ i < j
      /\ key[arrivals[i]] = key[arrivals[j]]
      /\ pc[arrivals[j]] \in {"infn", "done"} )
    => pc[arrivals[i]] = "done"

\* three callers called with one key: the first has settled, the second
\* runs fn, the third waits
LockFifoServed ==
  /\ Len(arrivals) = 3
  /\ \A i \in 1..3 : key[arrivals[i]] = key[arrivals[1]]
  /\ pc[arrivals[1]] = "done"
  /\ pc[arrivals[2]] = "infn"
  /\ pc[arrivals[3]] = "lockwait"

\* C19: a caller that waits for the lock always gets to run fn, whether the
\* fn of the callers before it returned or threw (every fn settling).
WaitingCallerProceeds ==
  \A c \in Callers : (pc[c] = "lockwait") ~> (pc[c] = "infn")

\* a caller queued directly behind a caller whose fn threw has run its own
\* fn and returned normally
ProceededAfterThrow ==
  \E a, b \in Callers :
    /\ a # b
    /\ previous[b] = ChainOf(a)
    /\ outcome[a] = "threw"
    /\ outcome[b] = "returned"

\* C20: whenever no call of withChatLock for a key is waiting or running,
\* the map holds no entry for that key.
LockTableDrains ==
  \A k \in Keys :
    (\A c \in Callers : pc[c] \in {"lockwait", "infn"} => key[c] # k)
    => queues[k] = NoPromise

\* C21: a turn never waits for the lock because of turns on other
\* conversations: whenever a turn's `await previous` is pending, some other
\* unfinished turn on the same (user_id, chat_id) is ahead of it.
DifferentConversationsNeverWait ==
  \A c \in Callers :
    (pc[c] = "lockwait" /\ ~CanStart(c))
    => \E d \in Callers \ {c} :
         /\ chat[d] = chat[c]
         /\ pc[d] \in {"lockwait", "infn"}

\* the part of C21 that holds: the wait is always for a call with the same
\* lock key
DifferentKeysNeverWait ==
  \A c \in Callers :
    (pc[c] = "lockwait" /\ ~CanStart(c))
    => \E d \in Callers \ {c} :
         /\ key[d] = key[c]
         /\ pc[d] \in {"lockwait", "infn"}

\* task t waits in highQueue
Queued(t) == \E i \in 1..Len(highQueue) : highQueue[i] = t

\* C22: tasks are started in the order in which runHighLlm was called: the
\* sequence of started tasks is a prefix of the sequence of admitted tasks.
QueueFifo ==
  /\ Len(started) <= Len(admitted)
  /\ started = SubSeq(admitted, 1, Len(started))

\* three tasks were admitted while the first was running; the first two
\* have been started, in the order of their calls
QueueServedInOrder ==
  /\ Len(admitted) >= 3
  /\ Len(started) = 2
  /\ Len(highQueue) >= 1
  /\ started[1] = admitted[1] /\ started[2] = admitted[2]
  /\ \E o \in {"resolved", "rejected"} : <<started[1], o>> \in settled

\* C23: a task's future settles with the task's own outcome, a settled task
\* (resolved or rejected) leaves the queue running its next task, and every
\* admitted task is eventually started provided started tasks settle.
FailureDoesNotBlockQueue ==
  /\ [](\A t \in Tasks :
         Cardinality({s \in settled : s[1] = t}) <= 1)
  /\ [](highQueue # <<>> => (running /\ active # {}))
  /\ \A t \in Tasks : Queued(t) ~> (t \in active)

\* a task runs that was waiting when the task before it rejected
StartedAfterRejection ==
  \E i \in 2..Len(started) :
    /\ <<started[i - 1], "rejected">> \in settled
    /\ started[i] \in active
    /\ running

\* turn r is in runPostAnswerUpdates
Enriching(r) == pc[r] \in {"title", "topic", "polish", "memory"}

\* C24: background enrichment (title, topic, polish, memory) never holds the
\* conversation lock: a turn whose enrichment is running, streamed or not,
\* has released the lock.
EnrichmentNeverHoldsLock ==
  \A r \in Reqs : Enriching(r) => released[r]

\* C25: after a successful deleteChat the record does not exist again unless
\* a new turn request for the conversation is submitted afterwards.
DeletionIsPermanent == deleted => recFile = Absent

\* C28: the file at the record path is absent or holds one whole record
\* that was handed to saveChat before, also after a crash between the write
\* of the temp file and the rename.
RecordFileNeverPartial ==
  recFile = Absent \/ \E n \in saved : recFile = Whole(n)

\* the process crashed inside saveChat: the temp file was left behind, whole
\* or partly written, next to an older record at the record path
CrashedBeforeRename ==
  /\ saving = 0
  /\ tmpFile # Absent
  /\ recFile # Absent
  /\ tmpFile[2] # recFile[2]

\* the token estimates of the messages of a window, added up
RECURSIVE SumTokens(_)
SumTokens(messages) ==
  IF messages = <<>> THEN 0
  ELSE EstimateTokens(Head(messages).content) + SumTokens(Tail(messages))

\* C26: the token estimate of the memory block built for the prompt never
\* exceeds summaryBudget + factsBudget.
MemoryBlockWithinBudget ==
  budgetOut.built
  => EstimateTokens(budgetOut.memoryBlock)
       <= budgetIn.budgets.summary + budgetIn.budgets.facts

\* C27: for a positive recentBudget the token estimates of the messages of
\* the recent window add up to at most recentBudget.
RecentWindowWithinBudget ==
  (budgetOut.built /\ budgetIn.budgets.recent > 0)
  => SumTokens(budgetOut.recent) <= budgetIn.budgets.recent

\* the newest user message alone exceeds the budget: the window is that
\* message, cut down to the budget
NewestMessageTruncated ==
  /\ budgetOut.built
  /\ budgetIn.budgets.recent > 0
  /\ Len(budgetOut.recent) = 1
  /\ LET slice == RecentSlice(budgetIn.rawMessages,
                              MathMax(0, budgetIn.recentTurns - 1))
     IN  /\ slice # <<>>
         /\ EstimateTokens(slice[Len(slice)].content)
              > budgetIn.budgets.recent
         /\ budgetOut.recent[1].content < slice[Len(slice)].content
  /\ SumTokens(budgetOut.recent) = budgetIn.budgets.recent

\* the stage of the turn an event of the response stream belongs to, as the
\* client can tell: 1 routing, 2 search augmentation (the agent's relayed
\* lines, the agent diagnostics and the sources), 3 the answer (the model's
\* chunks), 4 the closing line; 0 for progress notes ("analysis",
\* "digest_prompt"), which every stage writes
StageRank(ev) ==
  CASE ev.from = "model" -> 3
    [] ev.from = "agent" -> 2
    [] ev.stage \in {"routing", "routing_decision"} -> 1
    [] ev.stage \in {"web_agent_unavailable", "web_agent_failed", "sources"}
         -> 2
    [] ev.done -> 4
    [] OTHER -> 0

\* C29: the events of a turn's response stream are ordered by stage: routing
\* events, then search augmentation events, then the answer's chunks; no
\* event of a later stage precedes an event of an earlier one.
EventsOrderedByStage ==
  \A i, j \in 1..Len(res.events) :
    (i < j /\ StageRank(res.events[i]) # 0 /\ StageRank(res.events[j]) # 0)
    => StageRank(res.events[i]) <= StageRank(res.events[j])

\* a streamed turn wrote routing events, relayed a line of the web agent and
\* passed on a chunk of the answer
StreamHasAllStages ==
  /\ req.useStream
  /\ \E i, j, k \in 1..Len(res.events) :
       /\ i < j /\ j < k
       /\ res.events[i].stage = "routing_decision"
       /\ res.events[j].from = "agent"
       /\ res.events[k].from = "model"

\* the enrichment of turn q has produced a title
TitleProducedBy(q) == "title" \in calls[q] /\ rec[q].title

\* C30: the title is generated once per conversation: once the enrichment of
\* a turn has produced a title, no other turn issues a title generation call,
\* and a persisted title is never taken away.
TitleGeneratedOnce ==
  [][/\ \A r \in Reqs :
          ("title" \notin calls[r] /\ "title" \in calls'[r])
          => ~\E q \in Reqs \ {r} : TitleProducedBy(q)
     /\ (disk.title => disk'.title)]_vars

\* C31: a prompt detected as conversational is routed with
\* info_seeking = false, whatever the classifier returned.
ConversationalNeverInfoSeeking ==
  (req.pc \notin {"idle", "classify"} /\ req.prompt.conversational)
  => ~req.route.infoSeeking

\* C32 (first half): every line of the web agent that is relayed to the
\* client has done = false.
RelayedNeverDone ==
  \A i \in 1..Len(res.events) :
    res.events[i].from = "agent" => ~res.events[i].done

\* C32: no relayed line of the web agent asserts completion, and an event
\* with done = true is the last event of the turn's stream.
DoneOnlyTerminal ==
  /\ RelayedNeverDone
  /\ \A i \in 1..Len(res.events) :
       res.events[i].done => i = Len(res.events)

\* the turn-critical part of the record is what it was when the turn
\* loaded it
RecordUntouched ==
  /\ effects.record.entry = effects.before.entry
  /\ effects.record.sources = effects.before.sources

\* C33: a turn that fails or is cancelled before it is finalized leaves the
\* turn-critical part of the record as it found it, and a finalized turn
\* wrote all of it at once: at every moment the record is either untouched
\* or holds the whole entry of a turn whose answer completed.
NoPartialRecordMutation ==
  \/ RecordUntouched
  \/ /\ req.answerOutcome = "ok"
     /\ effects.record.entry
     /\ effects.record.sources = req.sources

\* a streamed turn was cancelled or failed while chunks of its answer had
\* already been passed on, after a search that found sources
FailedAfterChunks ==
  /\ req.pc = "done"
  /\ req.answerOutcome \in {"failed", "incomplete"}
  /\ req.answer.n > 0
  /\ req.sources # NoSources
  /\ effects.record.exists
  /\ RecordUntouched

\* C34: a memory update that fails (the call throws or times out) or whose
\* result fails validation leaves summary, facts and last_summary_ts as they
\* were before the attempt.
FailedUpdateLeavesMemory ==
  (memRun.pc = "idle" /\ memRun.last \in {"throw", "invalid"})
  => MemoryFields(memRec) = memRun.before

\* an update was rejected by validation after an earlier update had written
\* a summary
InvalidUpdateAfterSummary ==
  /\ memRun.pc = "idle"
  /\ memRun.last = "invalid"
  /\ memRec.last_summary_ts > 0
  /\ MemoryFields(memRec) = memRun.before

\* C35: when at least SUMMARY_EVERY_N_TURNS turns were finalized since the
\* last successful summarization, the enrichment of the latest turn attempts
\* a summarization, whatever the timestamps of the messages.
SummarizationTriggeredByTurns ==
  memRun.turnsSince >= SummaryEveryNTurns => memRun.attempted

\* C36 (first half): the assembled list begins with the system instruction
\* and ends with the new user prompt.
InstructionFirstPromptLast ==
  asmOut.built
  => /\ asmOut.messages[1] = Msg("system", "instruction")
     /\ asmOut.messages[Len(asmOut.messages)] = Msg("user", "prompt")

\* C36: the assembled list begins with the system instruction and ends with
\* the new user prompt, and when the turn has at least one web source a
\* system message with the numbered source list sits immediately before the
\* prompt and nowhere else.
SourcesMessageBeforePrompt ==
  /\ InstructionFirstPromptLast
  /\ (asmOut.built /\ asmOut.sources # <<>>)
     => LET n == Len(asmOut.messages)
        IN  /\ n >= 3
            /\ asmOut.messages[n - 1] = Msg("system", "sources")
            /\ \A i \in 1..n :
                 asmOut.messages[i].kind = "sources" => i = n - 1

\* C37: the recent window of the prompt is the most recent prior user and
\* assistant messages from the end of rawMessages: a contiguous suffix of
\* rawMessages, oldest dropped first, whose single newest message may be cut
\* down to the budget instead of being dropped (no stored message is empty).
RecentWindowIsRawSuffix ==
  (/\ budgetOut.built
   /\ \A j \in 1..Len(budgetIn.rawMessages) :
        budgetIn.rawMessages[j].content > 0)
  => LET raw == budgetIn.rawMessages
         n   == Len(raw)
         k   == Len(budgetOut.recent)
     IN  /\ k <= n
         /\ \A i \in 1..k :
              /\ budgetOut.recent[i].role = raw[n - k + i].role
              /\ \/ budgetOut.recent[i].content = raw[n - k + i].content
                 \/ /\ k = 1
                    /\ budgetOut.recent[i].content < raw[n - k + i].content

\* the record has a user entry with message id m whose next entry is the
\* assistant entry holding the answer cached for m
CachedAnswerStored(record, m) ==
  \E i \in 1..(Len(record.raw_messages) - 1) :
    /\ record.raw_messages[i].role = "user"
    /\ record.raw_messages[i].message_id = m
    /\ record.raw_messages[i + 1].role = "assistant"
    /\ record.raw_messages[i + 1].turn = record.idempotency[m].turn
    /\ record.raw_messages[i + 1].polished = record.idempotency[m].polished

\* C38 (state part): in the persisted record every message id of the
\* idempotency index has a user entry in rawMessages, and its cached answer
\* is the content of the assistant entry right after that user entry.
CachedAnswersStored ==
  \A m \in Mids :
    (disk.exists /\ disk.idempotency[m].present)
    => CachedAnswerStored(disk, m)

\* a step that rewrites an answer in the record a request holds rewrites the
\* answer of that request's own turn
PolishOwnTurn ==
  \A r \in Reqs :
    \A i \in 1..Len(rec[r].raw_messages) :
      ( /\ i <= Len(rec'[r].raw_messages)
        /\ rec'[r].raw_messages[i].turn = rec[r].raw_messages[i].turn
        /\ ~rec[r].raw_messages[i].polished
        /\ rec'[r].raw_messages[i].polished )
      => /\ rec[r].raw_messages[i].turn = r
         /\ rec'[r].idempotency[mid[r]].polished

\* C38: in every persisted record every message id of the idempotency index
\* has a user entry in rawMessages and its cached answer is the content of
\* the assistant entry right after that user entry; polish changes the
\* message and the cached answer together, and only those of its own turn.
IdempotencyMatchesRawMessages ==
  /\ []CachedAnswersStored
  /\ [][PolishOwnTurn]_vars

\* a polished turn is persisted, entry and message alike
PolishedTurnPersisted ==
  \E m \in Mids :
    /\ disk.exists /\ disk.idempotency[m].present
    /\ disk.idempotency[m].polished
    /\ CachedAnswerStored(disk, m)

\* C39: every streamed turn request eventually has its response ended by
\* the server, given that every upstream call eventually returns or fails;
\* so also when the inference stream ends with an empty answer or without
\* a completion marker and the turn is not finalized.
StreamEventuallyEnded ==
  (req.pc # "idle" /\ req.useStream) ~> res.writableEnded

\* C40: a request sent by callWebAgent or streamWebAgent with a non-empty
\* query passes the validation of the web agent and, the search key being
\* configured, reaches the search step.
ClientRequestAccepted ==
  ( /\ agentIn.from = "client"
    /\ AgentNonEmpty(agentIn.body.query)
    /\ agentIn.key
    /\ agentOut.pc # "received" )
  => /\ agentOut.status # 400
     /\ agentOut.pc \in {"search", "fetch"} \/ agentOut.error # "Missing prompt."

\* the web agent call of the turn failed in one of the ways named
AgentFailedIn(kinds) == req.agentOutcome \in kinds

\* the turn was finalized by this request
Finalized == effects.record.entry /\ ~effects.before.entry

\* the client of a streamed turn was sent a sources event without sources
\* only; the client of a non-streamed turn got an empty sources field
ResponseHasNoSources ==
  IF req.useStream
    THEN \A i \in 1..Len(res.events) :
           res.events[i].stage = "sources" => res.events[i].sources = NoSources
    ELSE res.sources = NoSources

\* C11: when the web agent is unconfigured, answers with an error status,
\* times out or does not complete, the turn goes on to the answer call with
\* no sources, and a finalized turn has no sources in its response and in
\* its idempotency entry.
SearchFailureYieldsNoSources ==
  AgentFailedIn({"unconfigured", "status", "nobody", "timeout", "network",
                 "incomplete"})
  => /\ req.pc \in {"answer", "answerread", "done"}
     /\ req.sources = NoSources
     /\ Finalized => (effects.record.sources = NoSources /\ ResponseHasNoSources)

\* C12: in a streamed turn with useWeb = true whose web agent call failed
\* (error status, timeout, broken or incomplete stream, or a failure the
\* agent reports in its stream) a web_agent_failed event is written before
\* every line of the answer.
WebAgentFailureReported ==
  ( /\ req.useStream /\ req.use
    /\ AgentFailedIn({"status", "nobody", "timeout", "network", "incomplete",
                      "inband_error"}) )
  => \E i \in 1..Len(res.events) :
       /\ res.events[i].stage = "web_agent_failed"
       /\ \A j \in 1..Len(res.events) : res.events[j].from = "model" => i < j

\* C13: when the answer call fails, a streamed response (local or web path)
\* is ended and its last line carries an error message and done: true; a
\* non-streamed response has a status outside 200..299.
AnswerFailureReported ==
  req.answerOutcome = "failed"
  => IF req.useStream
       THEN /\ res.writableEnded
            /\ res.events # <<>>
            /\ res.events[Len(res.events)].error
            /\ res.events[Len(res.events)].done
       ELSE res.statusCode \notin 200..299

OverrideOffNeverSearches ==
  req.override = "false"
  => /\ effects.calls \cap {"query", "agent"} = {}
     /\ req.pc \notin {"idle", "classify"}
          => (~req.use /\ req.reason = "client_override_off")

\* a turn with the override false, an explicit search phrase and a
\* classifier that asks for the web has been finalized
OverrideOffTurnFinalized ==
  /\ req.override = "false"
  /\ req.prompt.explicitSearch
  /\ req.route.source = "llm" /\ req.route.needsWeb /\ req.route.infoSeeking
  /\ req.pc = "done"
  /\ Finalized

\* C16: the classifier is called only when the override is true and the
\* prompt holds no explicit search phrase.
ClassifierOnlyWhenNeeded ==
  "classify" \in effects.calls
  => (req.override = "true" /\ ~req.prompt.explicitSearch)

=============================================================================
